---- MODULE Spec2Model ----
(***************************************************************************)
(* Bingo Snap (Office-Bingo-Game): the board collection of App.tsx, the    *)
(* board view of BingoBoard.tsx, the creation form of CreateGame.tsx and   *)
(* the suggestion service of geminiService.ts.                             *)
(*                                                                         *)
(* Text is a sequence of character codes (UTF-16 code units of the BMP),   *)
(* so that the share-link encoding can be computed character by character. *)
(* An optional JavaScript value (undefined, null or a missing key) is the  *)
(* empty sequence, a present one is the one-element sequence holding it.   *)
(***************************************************************************)
EXTENDS Integers, Sequences, FiniteSets, TLC

VARIABLES
    pc,              \* page life cycle: "unmounted", "mounted", "ready", "crashed", or a pure-function run
    url,             \* the import parameter of the page's URL (optional token)
    store,           \* localStorage[STORAGE_KEY] (optional stored text)
    games,           \* App: useState games
    activeGameId,    \* App: useState activeGameId (optional)
    isCreating,      \* App: useState isCreating
    selectedCellId,  \* BingoBoard: useState selectedCellId (optional)
    showConfetti,    \* BingoBoard: useState showConfetti
    isProcessingImg, \* BingoBoard: useState isProcessingImg
    pending,         \* BingoBoard: the handleFileUpload call awaiting compressImage (optional)
    clipboard,       \* the share URL's token last handed to navigator.share / clipboard (optional)
    now,             \* the reading of Date.now()
    lastOp,          \* the handler that ran last, with what it reported to the user
    input,           \* pure-function runs: the arguments
    output           \* pure-function runs: the result (optional)

vars == <<pc, url, store, games, activeGameId, isCreating, selectedCellId, showConfetti,
          isProcessingImg, pending, clipboard, now, lastOp, input, output>>

(***************************************************************************)
(* Optional values and small helpers                                       *)
(***************************************************************************)
Absent == <<>>
Some(x) == <<x>>
IsSome(o) == o # <<>>
Val(o) == o[1]

\* the value read from a member that a parsed object does not have, where the model
\* keeps the member: a sequence that is no text and no list of records
Undefined == <<-1>>

Range(s) == {s[i] : i \in DOMAIN s}

\* F(x), with x evaluated once (a const declaration of the source)
Bind(x, F(_)) == CHOOSE r \in {F(e) : e \in {x}} : TRUE

Min(a, b) == IF a < b THEN a ELSE b

\* Array.prototype.slice(0, n)
Slice(s, n) == SubSeq(s, 1, Min(n, Len(s)))

RECURSIVE FlattenRange(_, _, _)
FlattenRange(ss, lo, hi) ==
    IF lo > hi THEN <<>>
    ELSE IF lo = hi THEN ss[lo]
    ELSE LET mid == (lo + hi) \div 2
         IN  FlattenRange(ss, lo, mid) \o FlattenRange(ss, mid + 1, hi)

\* the concatenation of a sequence of sequences (string building, Array.join(""))
Flatten(ss) == FlattenRange(ss, 1, Len(ss))

RECURSIVE Digits(_)
\* Number.prototype.toString() of a non-negative integer, as character codes
Digits(n) == IF n < 10 THEN <<48 + n>> ELSE Digits(n \div 10) \o <<48 + (n % 10)>>

(***************************************************************************)
(* Bounds                                                                  *)
(***************************************************************************)
MaxTime == 2           \* App session: the last reading of the clock
MaxGames == 2          \* App session: the boards a collection grows to
MaxSessionPhotos == 1  \* App session: photos on a cell before another upload starts
MaxBoardTime == 3      \* board session: the last reading of the clock
MaxPhotos == 2         \* board session: photos on a cell before another upload starts
QuotaImages == 2       \* the images that fit into the storage quota

(***************************************************************************)
(* types.ts: BingoCell, BingoGame, CreateGameParams                        *)
(***************************************************************************)
BingoCell(id, text, photoUrl, photos, completedAt) ==
    [id |-> id, text |-> text, photoUrl |-> photoUrl, photos |-> photos,
     completedAt |-> completedAt]

BingoGame(id, title, size, createdAt, theme, cells) ==
    [id |-> id, title |-> title, size |-> size, createdAt |-> createdAt,
     theme |-> theme, cells |-> cells]

CreateGameParams(title, size, topic, customItems) ==
    [title |-> title, size |-> size, topic |-> topic, customItems |-> customItems]

\* c.photos && c.photos.length > 0
HasPhotos(c) == IsSome(c.photos) /\ Len(Val(c.photos)) > 0

\* c.photos || []
PhotosOf(c) == IF IsSome(c.photos) THEN Val(c.photos) ELSE <<>>

(***************************************************************************)
(* geminiService.ts: generateBingoItems                                    *)
(***************************************************************************)
STR_TASK == <<84, 97, 115, 107, 32>>                                \* "Task "
STR_BONUS == <<66, 111, 110, 117, 115, 32, 73, 116, 101, 109, 32>>  \* "Bonus Item "

\* `Task ${i + 1} (${topic})`, i counted from 0
FallbackItem(i, topic) == STR_TASK \o Digits(i + 1) \o <<32, 40>> \o topic \o <<41>>

\* `Bonus Item ${i + 1}`, i counted from 0
BonusItem(i) == STR_BONUS \o Digits(i + 1)

\* Array.from({ length: count }, (_, i) => `Task ${i + 1} (${topic})`)
FallbackItems(topic, count) == [k \in 1..count |-> FallbackItem(k - 1, topic)]

\* faulty variant of PadItems: nothing is pushed
PadItemsNothing(items, count) == items

\* items.push(`Bonus Item ${i + 1}`) for i in 0..needed-1, when items.length < count
PadItems(items, count) ==
    IF Len(items) < count
    THEN items \o [k \in 1..(count - Len(items)) |-> BonusItem(k - 1)]
    ELSE items

\* JSON.parse gave a string of at least count characters: nothing is pushed, and slice
\* is String.prototype.slice
IsLongText(count, response) == response.kind = "text" /\ Len(response.items) >= count

\* faulty variant of generateBingoItems: the array is not cut to count items
generateBingoItemsNoSlice(topic, count, response) ==
    IF response.kind = "array" THEN PadItems(response.items, count)
    ELSE IF IsLongText(count, response) THEN Slice(response.items, count)
    ELSE FallbackItems(topic, count)

\* The provider's answer is one of: the call throws ("error"), response.text is
\* empty ("empty"), the text is no JSON ("unparsable"), a JSON array of strings
\* ("array", its items), or a JSON string ("text", its characters one by one). On a string
\* shorter than count items.push throws, and the catch block answers.
generateBingoItems(topic, count, response) ==
    IF response.kind = "array"
    THEN Slice(PadItems(response.items, count), count)
    ELSE IF IsLongText(count, response)
    THEN Slice(response.items, count)
    ELSE FallbackItems(topic, count)

\* what the caller receives: the items, and whether they are an array (slice on a JSON
\* string gives a string)
GeneratedItems(topic, count, response) ==
    [isArray |-> ~IsLongText(count, response),
     items |-> generateBingoItems(topic, count, response)]

(***************************************************************************)
(* App.tsx: handleCreateGame                                               *)
(***************************************************************************)
STR_CELL == <<99, 101, 108, 108, 45>>   \* "cell-"

\* `cell-${Date.now()}-${idx}`, idx counted from 0
CellId(t, idx) == STR_CELL \o Digits(t) \o <<45>> \o Digits(idx)

\* (params.customItems || []).map((text, idx) => ({ id, text, photos: [] }))
NewCells(params, t) ==
    LET items == IF IsSome(params.customItems) THEN Val(params.customItems) ELSE <<>>
    IN  [k \in 1..Len(items) |-> BingoCell(CellId(t, k - 1), items[k], Absent, Some(<<>>), Absent)]

\* the newGame of handleCreateGame, Date.now() reading t
NewGame(params, t) ==
    BingoGame(Digits(t), params.title, params.size, t, params.topic, NewCells(params, t))

(***************************************************************************)
(* CreateGame.tsx: the creation form                                       *)
(***************************************************************************)
\* CreateGame.tsx: HOLIDAY_TASKS, the 25 tasks of the holiday template
HOLIDAY_TASKS == <<
    \* "Visit the Christmas Wonderland or Distillery District"
    <<86, 105, 115, 105, 116, 32, 116, 104, 101, 32, 67, 104, 114, 105, 115, 116, 109, 97, 115,
      32, 87, 111, 110, 100, 101, 114, 108, 97, 110, 100, 32, 111, 114, 32, 68, 105, 115, 116,
      105, 108, 108, 101, 114, 121, 32, 68, 105, 115, 116, 114, 105, 99, 116>>,
    \* "Build a gingerbread house"
    <<66, 117, 105, 108, 100, 32, 97, 32, 103, 105, 110, 103, 101, 114, 98, 114, 101, 97, 100,
      32, 104, 111, 117, 115, 101>>,
    \* "Light a winter candle"
    <<76, 105, 103, 104, 116, 32, 97, 32, 119, 105, 110, 116, 101, 114, 32, 99, 97, 110, 100,
      108, 101>>,
    \* "Dress up a pet in holiday costume"
    <<68, 114, 101, 115, 115, 32, 117, 112, 32, 97, 32, 112, 101, 116, 32, 105, 110, 32, 104,
      111, 108, 105, 100, 97, 121, 32, 99, 111, 115, 116, 117, 109, 101>>,
    \* "Set up and decorate Christmas tree"
    <<83, 101, 116, 32, 117, 112, 32, 97, 110, 100, 32, 100, 101, 99, 111, 114, 97, 116, 101,
      32, 67, 104, 114, 105, 115, 116, 109, 97, 115, 32, 116, 114, 101, 101>>,
    \* "Go for lunch/dinner with colleagues"
    <<71, 111, 32, 102, 111, 114, 32, 108, 117, 110, 99, 104, 47, 100, 105, 110, 110, 101, 114,
      32, 119, 105, 116, 104, 32, 99, 111, 108, 108, 101, 97, 103, 117, 101, 115>>,
    \* "Share a holiday tradition with a co-worker"
    <<83, 104, 97, 114, 101, 32, 97, 32, 104, 111, 108, 105, 100, 97, 121, 32, 116, 114, 97,
      100, 105, 116, 105, 111, 110, 32, 119, 105, 116, 104, 32, 97, 32, 99, 111, 45, 119, 111,
      114, 107, 101, 114>>,
    \* "Visit the Scotia Plaza Christmas tree"
    <<86, 105, 115, 105, 116, 32, 116, 104, 101, 32, 83, 99, 111, 116, 105, 97, 32, 80, 108,
      97, 122, 97, 32, 67, 104, 114, 105, 115, 116, 109, 97, 115, 32, 116, 114, 101, 101>>,
    \* "Set up a Christmas village / train"
    <<83, 101, 116, 32, 117, 112, 32, 97, 32, 67, 104, 114, 105, 115, 116, 109, 97, 115, 32,
      118, 105, 108, 108, 97, 103, 101, 32, 47, 32, 116, 114, 97, 105, 110>>,
    \* "Donate to charity (clothes, toy, etc.)"
    <<68, 111, 110, 97, 116, 101, 32, 116, 111, 32, 99, 104, 97, 114, 105, 116, 121, 32, 40,
      99, 108, 111, 116, 104, 101, 115, 44, 32, 116, 111, 121, 44, 32, 101, 116, 99, 46, 41>>,
    \* "Watch a holiday movie"
    <<87, 97, 116, 99, 104, 32, 97, 32, 104, 111, 108, 105, 100, 97, 121, 32, 109, 111, 118,
      105, 101>>,
    \* "Drive/walk around to see holiday lights"
    <<68, 114, 105, 118, 101, 47, 119, 97, 108, 107, 32, 97, 114, 111, 117, 110, 100, 32, 116,
      111, 32, 115, 101, 101, 32, 104, 111, 108, 105, 100, 97, 121, 32, 108, 105, 103, 104,
      116, 115>>,
    \* "Wrap a holiday gift"
    <<87, 114, 97, 112, 32, 97, 32, 104, 111, 108, 105, 100, 97, 121, 32, 103, 105, 102, 116>>,
    \* "Bake holiday-themed cookies"
    <<66, 97, 107, 101, 32, 104, 111, 108, 105, 100, 97, 121, 45, 116, 104, 101, 109, 101, 100,
      32, 99, 111, 111, 107, 105, 101, 115>>,
    \* "Write a letter to Santa"
    <<87, 114, 105, 116, 101, 32, 97, 32, 108, 101, 116, 116, 101, 114, 32, 116, 111, 32, 83,
      97, 110, 116, 97>>,
    \* "Go all out on holiday lights"
    <<71, 111, 32, 97, 108, 108, 32, 111, 117, 116, 32, 111, 110, 32, 104, 111, 108, 105, 100,
      97, 121, 32, 108, 105, 103, 104, 116, 115>>,
    \* "Attend a holiday concert, play, or virtual event"
    <<65, 116, 116, 101, 110, 100, 32, 97, 32, 104, 111, 108, 105, 100, 97, 121, 32, 99, 111,
      110, 99, 101, 114, 116, 44, 32, 112, 108, 97, 121, 44, 32, 111, 114, 32, 118, 105, 114,
      116, 117, 97, 108, 32, 101, 118, 101, 110, 116>>,
    \* "Go ice skating or sledding"
    <<71, 111, 32, 105, 99, 101, 32, 115, 107, 97, 116, 105, 110, 103, 32, 111, 114, 32, 115,
      108, 101, 100, 100, 105, 110, 103>>,
    \* "Write or make holiday cards"
    <<87, 114, 105, 116, 101, 32, 111, 114, 32, 109, 97, 107, 101, 32, 104, 111, 108, 105, 100,
      97, 121, 32, 99, 97, 114, 100, 115>>,
    \* "Go for a run or walk outdoors"
    <<71, 111, 32, 102, 111, 114, 32, 97, 32, 114, 117, 110, 32, 111, 114, 32, 119, 97, 108,
      107, 32, 111, 117, 116, 100, 111, 111, 114, 115>>,
    \* "Enjoy a hot chocolate or festive drink with colleagues"
    <<69, 110, 106, 111, 121, 32, 97, 32, 104, 111, 116, 32, 99, 104, 111, 99, 111, 108, 97,
      116, 101, 32, 111, 114, 32, 102, 101, 115, 116, 105, 118, 101, 32, 100, 114, 105, 110,
      107, 32, 119, 105, 116, 104, 32, 99, 111, 108, 108, 101, 97, 103, 117, 101, 115>>,
    \* "Create and listen to a holiday playlist"
    <<67, 114, 101, 97, 116, 101, 32, 97, 110, 100, 32, 108, 105, 115, 116, 101, 110, 32, 116,
      111, 32, 97, 32, 104, 111, 108, 105, 100, 97, 121, 32, 112, 108, 97, 121, 108, 105, 115,
      116>>,
    \* "Take a festive photo"
    <<84, 97, 107, 101, 32, 97, 32, 102, 101, 115, 116, 105, 118, 101, 32, 112, 104, 111, 116,
      111>>,
    \* "Make or cook a holiday recipe"
    <<77, 97, 107, 101, 32, 111, 114, 32, 99, 111, 111, 107, 32, 97, 32, 104, 111, 108, 105,
      100, 97, 121, 32, 114, 101, 99, 105, 112, 101>>,
    \* "Wear an ugly sweater"
    <<87, 101, 97, 114, 32, 97, 110, 32, 117, 103, 108, 121, 32, 115, 119, 101, 97, 116, 101,
      114>>
>>

STR_HOLIDAY_TITLE == <<72, 111, 108, 105, 100, 97, 121, 32, 66, 105, 110, 103, 111, 32, 67, 104,
                       97, 108, 108, 101, 110, 103, 101>>   \* "Holiday Bingo Challenge"
STR_HOLIDAY_TOPIC == <<72, 111, 108, 105, 100, 97, 121, 32, 70, 117, 110>>  \* "Holiday Fun"

\* the grid sizes the form offers: [3, 4, 5].map(...)
FormSizes == {3, 4, 5}

\* Array.from({ length: size * size }, (_, i) => `Task ${i + 1}`)
ManualItems(size) == [k \in 1..(size * size) |-> STR_TASK \o Digits(k)]

\* handleSubmit: the params onCreate makes a board of (optional: none when the title is
\* empty, and none when the items are a string, on which handleCreateGame's map throws
\* into handleSubmit's catch). topic is the text of the topic field ("" when left empty).
SubmitParams(title, size, topic, response) ==
    IF title = <<>> THEN Absent
    ELSE IF topic # <<>> /\ IsLongText(size * size, response) THEN Absent
    ELSE IF topic # <<>>
    THEN Some(CreateGameParams(title, size, Some(topic),
                               Some(generateBingoItems(topic, size * size, response))))
    ELSE Some(CreateGameParams(title, size, Absent, Some(ManualItems(size))))

\* loadHolidayTemplate: the params handed to onCreate
HolidayParams ==
    CreateGameParams(STR_HOLIDAY_TITLE, 5, Some(STR_HOLIDAY_TOPIC), Some(HOLIDAY_TASKS))

(***************************************************************************)
(* BingoBoard.tsx: the win-line evaluator (winStatus useMemo)              *)
(***************************************************************************)
\* completedIndices: the indices (from 0) of the cells that have photos
CompletedIndices(game) == {i \in 0..(Len(game.cells) - 1) : HasPhotos(game.cells[i + 1])}

\* isFull
IsFullHouse(game) ==
    Len(game.cells) > 0 /\ Cardinality(CompletedIndices(game)) = Len(game.cells)

\* faulty variant of CheckLine: a line wins as soon as one of its cells is complete
CheckLineSome(status, completed, indices, type) ==
    IF \E k \in DOMAIN indices : indices[k] \in completed
    THEN [i \in DOMAIN status |->
            IF i \in Range(indices) /\ type \notin Range(status[i])
            THEN Append(status[i], type)
            ELSE status[i]]
    ELSE status

\* checkLine: the status map after registering one line. The map is kept as a
\* function over the indices; a missing entry is the empty list (status.get(i) || []).
CheckLine(status, completed, indices, type) ==
    IF \A k \in DOMAIN indices : indices[k] \in completed
    THEN [i \in DOMAIN status |->
            IF i \in Range(indices) /\ type \notin Range(status[i])
            THEN Append(status[i], type)
            ELSE status[i]]
    ELSE status

\* Array.from({ length: size }, (_, c) => r * size + c)
RowIndices(size, r) == [k \in 1..size |-> r * size + (k - 1)]
\* Array.from({ length: size }, (_, r) => r * size + c)
ColIndices(size, c) == [k \in 1..size |-> (k - 1) * size + c]
\* d1: i * size + i
Diag1Indices(size) == [k \in 1..size |-> (k - 1) * size + (k - 1)]
\* d2: (i + 1) * size - (i + 1)
Diag2Indices(size) == [k \in 1..size |-> k * size - k]

RECURSIVE CheckRows(_, _, _, _)
\* for (let r = 0; r < size; r++) checkLine(rowIndices, 'row'), from row r on
CheckRows(status, completed, size, r) ==
    IF r >= size THEN status
    ELSE CheckRows(CheckLine(status, completed, RowIndices(size, r), "row"), completed, size, r + 1)

RECURSIVE CheckCols(_, _, _, _)
\* for (let c = 0; c < size; c++) checkLine(colIndices, 'col'), from column c on
CheckCols(status, completed, size, c) ==
    IF c >= size THEN status
    ELSE CheckCols(CheckLine(status, completed, ColIndices(size, c), "col"), completed, size, c + 1)

\* The indices a line may name: those of the grid and of the cells.
StatusDomain(game) ==
    0..((IF game.size * game.size > Len(game.cells) THEN game.size * game.size
         ELSE Len(game.cells)) - 1)

\* winStatus: rows, then columns, then the two diagonals
WinStatus(game) ==
    LET completed == CompletedIndices(game)
        size == game.size
        s0 == [i \in StatusDomain(game) |-> <<>>]
        s1 == CheckRows(s0, completed, size, 0)
        s2 == CheckCols(s1, completed, size, 0)
        s3 == CheckLine(s2, completed, Diag1Indices(size), "diag")
    IN  CheckLine(s3, completed, Diag2Indices(size), "diag")

\* faulty variant of getCellStyle: the diagonal is looked at before the number of types
getCellStyleDiagFirst(hasPhotos, wins, isFullHouse) ==
    IF ~hasPhotos THEN "incomplete"
    ELSE IF isFullHouse THEN "fullhouse"
    ELSE IF "diag" \in Range(wins) THEN "diag"
    ELSE IF Len(wins) > 1 THEN "multi"
    ELSE IF "col" \in Range(wins) THEN "col"
    ELSE IF "row" \in Range(wins) THEN "row"
    ELSE "complete"

\* getCellStyle: the highlight category the classes stand for
getCellStyle(hasPhotos, wins, isFullHouse) ==
    IF ~hasPhotos THEN "incomplete"
    ELSE IF isFullHouse THEN "fullhouse"
    ELSE IF Len(wins) > 1 THEN "multi"
    ELSE IF "diag" \in Range(wins) THEN "diag"
    ELSE IF "col" \in Range(wins) THEN "col"
    ELSE IF "row" \in Range(wins) THEN "row"
    ELSE "complete"

\* the grid's render: getCellStyle(!!hasPhotos, winStatus.get(index) || [], isFullHouse) per cell
CellStyles(game) ==
    LET status == WinStatus(game)
        full == IsFullHouse(game)
    IN  [k \in 1..Len(game.cells) |-> getCellStyle(HasPhotos(game.cells[k]), status[k - 1], full)]

(***************************************************************************)
(* BingoBoard.tsx: addPhoto, removePhoto, handleShare                      *)
(***************************************************************************)
\* addPhoto: newCells
AddPhotoCells(cells, cellId, photoUrl, t) ==
    [k \in 1..Len(cells) |->
        IF cells[k].id = cellId
        THEN [cells[k] EXCEPT !.photos = Some(Append(PhotosOf(cells[k]), photoUrl)),
                              !.completedAt = Some(t)]
        ELSE cells[k]]

\* newPhotos.splice(photoIndex, 1): a negative index counts from the end (and stops at
\* 0); the element at the start index is dropped when there is one, else nothing is
Splice1(photos, photoIndex) ==
    LET len == Len(photos)
        start == IF photoIndex < 0
                 THEN (IF len + photoIndex < 0 THEN 0 ELSE len + photoIndex)
                 ELSE Min(photoIndex, len)
    IN  IF start < len
        THEN SubSeq(photos, 1, start) \o SubSeq(photos, start + 2, len)
        ELSE photos

\* faulty variant of RemovePhotoCells: completedAt is kept when the last photo goes
RemovePhotoCellsKeepStamp(cells, cellId, photoIndex) ==
    [k \in 1..Len(cells) |->
        IF cells[k].id = cellId /\ IsSome(cells[k].photos)
        THEN [cells[k] EXCEPT !.photos = Some(Splice1(Val(cells[k].photos), photoIndex))]
        ELSE cells[k]]

\* removePhoto: newCells
RemovePhotoCells(cells, cellId, photoIndex) ==
    [k \in 1..Len(cells) |->
        IF cells[k].id = cellId /\ IsSome(cells[k].photos)
        THEN LET newPhotos == Splice1(Val(cells[k].photos), photoIndex)
             IN  [cells[k] EXCEPT !.photos = Some(newPhotos),
                                  !.completedAt = IF Len(newPhotos) > 0 THEN cells[k].completedAt
                                                  ELSE Absent]
        ELSE cells[k]]

\* handleShare: gameTemplate, Date.now() reading t
GameTemplate(game, t) ==
    [game EXCEPT !.id = Digits(t),
                 !.cells = [k \in 1..Len(game.cells) |->
                               [game.cells[k] EXCEPT !.photos = Some(<<>>), !.completedAt = Absent]],
                 !.createdAt = t]

(***************************************************************************)
(* The share link: JSON.stringify, encodeURIComponent, btoa (handleShare)  *)
(* and URLSearchParams.get, atob, decodeURIComponent, JSON.parse (App).    *)
(* Text here is BMP text without surrogate code units.                     *)
(***************************************************************************)
\* an upper-case hexadecimal digit, as encodeURIComponent writes it
HexDigit(v) == IF v < 10 THEN 48 + v ELSE 55 + v

\* the value of a hexadecimal digit, -1 for any other character
HexVal(c) ==
    IF c >= 48 /\ c <= 57 THEN c - 48
    ELSE IF c >= 65 /\ c <= 70 THEN c - 55
    ELSE IF c >= 97 /\ c <= 102 THEN c - 87
    ELSE -1

\* JSON.stringify's QuoteJSONString, one character
JsonEscape(c) ==
    IF c = 34 THEN <<92, 34>>
    ELSE IF c = 92 THEN <<92, 92>>
    ELSE IF c = 8 THEN <<92, 98>>
    ELSE IF c = 12 THEN <<92, 102>>
    ELSE IF c = 10 THEN <<92, 110>>
    ELSE IF c = 13 THEN <<92, 114>>
    ELSE IF c = 9 THEN <<92, 116>>
    ELSE IF c < 32 THEN <<92, 117, 48, 48, 48 + (c \div 16),
                          (IF c % 16 < 10 THEN 48 + (c % 16) ELSE 87 + (c % 16))>>
    ELSE <<c>>

\* JSON.stringify of a string
JsonString(s) == <<34>> \o Flatten([i \in 1..Len(s) |-> JsonEscape(s[i])]) \o <<34>>

\* the elements of a JSON array or the members of an object, joined by commas
JoinComma(ss) == Flatten([i \in 1..Len(ss) |-> IF i = 1 THEN ss[i] ELSE <<44>> \o ss[i]])

KEY_ID == <<34, 105, 100, 34, 58>>                                          \* "id":
KEY_TEXT == <<34, 116, 101, 120, 116, 34, 58>>                              \* "text":
KEY_PHOTOURL == <<34, 112, 104, 111, 116, 111, 85, 114, 108, 34, 58>>       \* "photoUrl":
KEY_PHOTOS == <<34, 112, 104, 111, 116, 111, 115, 34, 58>>                  \* "photos":
KEY_COMPLETEDAT == <<34, 99, 111, 109, 112, 108, 101, 116, 101, 100, 65, 116, 34, 58>>  \* "completedAt":
KEY_TITLE == <<34, 116, 105, 116, 108, 101, 34, 58>>                        \* "title":
KEY_SIZE == <<34, 115, 105, 122, 101, 34, 58>>                              \* "size":
KEY_CREATEDAT == <<34, 99, 114, 101, 97, 116, 101, 100, 65, 116, 34, 58>>   \* "createdAt":
KEY_THEME == <<34, 116, 104, 101, 109, 101, 34, 58>>                        \* "theme":
KEY_CELLS == <<34, 99, 101, 108, 108, 115, 34, 58>>                         \* "cells":

\* JSON.stringify of a cell: the keys in the order the objects are built in
\* (id, text, a legacy photoUrl, photos, completedAt); an undefined value is left out
StringifyCell(c) ==
    <<123>> \o JoinComma(
        <<KEY_ID \o JsonString(c.id), KEY_TEXT \o JsonString(c.text)>>
        \o (IF IsSome(c.photoUrl) THEN <<KEY_PHOTOURL \o JsonString(Val(c.photoUrl))>> ELSE <<>>)
        \o (IF IsSome(c.photos)
            THEN <<KEY_PHOTOS \o <<91>>
                   \o JoinComma([i \in 1..Len(Val(c.photos)) |-> JsonString(Val(c.photos)[i])])
                   \o <<93>>>>
            ELSE <<>>)
        \o (IF IsSome(c.completedAt) THEN <<KEY_COMPLETEDAT \o Digits(Val(c.completedAt))>> ELSE <<>>))
    \o <<125>>

\* JSON.stringify of a game: id, title, size, createdAt, theme, cells (handleCreateGame's order)
StringifyGame(g) ==
    <<123>> \o JoinComma(
        <<KEY_ID \o JsonString(g.id), KEY_TITLE \o JsonString(g.title),
          KEY_SIZE \o Digits(g.size), KEY_CREATEDAT \o Digits(g.createdAt)>>
        \o (IF IsSome(g.theme) THEN <<KEY_THEME \o JsonString(Val(g.theme))>> ELSE <<>>)
        \o <<KEY_CELLS \o <<91>>
             \o JoinComma([i \in 1..Len(g.cells) |-> StringifyCell(g.cells[i])]) \o <<93>>>>)
    \o <<125>>

\* the characters encodeURIComponent leaves alone: A-Z a-z 0-9 - _ . ! ~ * ' ( )
UriUnreserved(c) ==
    \/ (c >= 65 /\ c <= 90) \/ (c >= 97 /\ c <= 122) \/ (c >= 48 /\ c <= 57)
    \/ c \in {45, 95, 46, 33, 126, 42, 39, 40, 41}

\* the UTF-8 bytes of a BMP character
Utf8(c) ==
    IF c < 128 THEN <<c>>
    ELSE IF c < 2048 THEN <<192 + (c \div 64), 128 + (c % 64)>>
    ELSE <<224 + (c \div 4096), 128 + ((c \div 64) % 64), 128 + (c % 64)>>

\* %XX of a byte
PercentByte(b) == <<37, HexDigit(b \div 16), HexDigit(b % 16)>>

\* encodeURIComponent
encodeURIComponent(s) ==
    Flatten([i \in 1..Len(s) |->
        IF UriUnreserved(s[i]) THEN <<s[i]>>
        ELSE LET bytes == Utf8(s[i])
             IN  Flatten([j \in 1..Len(bytes) |-> PercentByte(bytes[j])])])

\* the base64 alphabet: A-Z a-z 0-9 + /
Base64Char(v) ==
    IF v < 26 THEN 65 + v
    ELSE IF v < 52 THEN 97 + (v - 26)
    ELSE IF v < 62 THEN 48 + (v - 52)
    ELSE IF v = 62 THEN 43
    ELSE 47

\* the value of a base64 character, -1 for any other character
Base64Val(c) ==
    IF c >= 65 /\ c <= 90 THEN c - 65
    ELSE IF c >= 97 /\ c <= 122 THEN c - 97 + 26
    ELSE IF c >= 48 /\ c <= 57 THEN c - 48 + 52
    ELSE IF c = 43 THEN 62
    ELSE IF c = 47 THEN 63
    ELSE -1

\* btoa of a string of characters below 256 (encodeURIComponent's output is ASCII)
btoa(s) ==
    LET n == Len(s)
        byte(i) == IF i <= n THEN s[i] ELSE 0
    IN  [k \in 1..(4 * ((n + 2) \div 3)) |->
            LET g == (k - 1) \div 4
                j == (k - 1) % 4
                b0 == byte(3 * g + 1)
                b1 == byte(3 * g + 2)
                b2 == byte(3 * g + 3)
            IN  IF j = 0 THEN Base64Char(b0 \div 4)
                ELSE IF j = 1 THEN Base64Char((b0 % 4) * 16 + (b1 \div 16))
                ELSE IF j = 2 THEN (IF 3 * g + 2 > n THEN 61
                                    ELSE Base64Char((b1 % 16) * 4 + (b2 \div 64)))
                ELSE (IF 3 * g + 3 > n THEN 61 ELSE Base64Char(b2 % 64))]

\* handleShare: the token after "?import=" in shareUrl, Date.now() reading t
ShareToken(game, t) == btoa(encodeURIComponent(StringifyGame(GameTemplate(game, t))))

\* new URLSearchParams(window.location.search).get('import') for a query "?import=" \o token:
\* the form-urlencoded parser turns "+" into a space (a base64 token holds no "%", "&" or "#")
SearchParamsGet(token) == [i \in 1..Len(token) |-> IF token[i] = 43 THEN 32 ELSE token[i]]

\* the forgiving-base64 decode after the white space went: up to two "=" are taken from
\* the end of a text of a length divisible by 4
StripPadding(d0) ==
    IF Len(d0) % 4 = 0 /\ Len(d0) >= 2 /\ d0[Len(d0)] = 61 /\ d0[Len(d0) - 1] = 61
    THEN SubSeq(d0, 1, Len(d0) - 2)
    ELSE IF Len(d0) % 4 = 0 /\ Len(d0) >= 1 /\ d0[Len(d0)] = 61
    THEN SubSeq(d0, 1, Len(d0) - 1)
    ELSE d0

\* atob (the forgiving-base64 decode): [ok, v], ok FALSE when it throws
atob(data) ==
    LET NotSpace(c) == c \notin {9, 10, 12, 13, 32}
        Decode(d) ==
            LET n == Len(d)
                v(i) == IF i <= n THEN Base64Val(d[i]) ELSE 0
            IN  IF n % 4 = 1 \/ \E i \in 1..n : Base64Val(d[i]) < 0
                THEN [ok |-> FALSE, v |-> <<>>]
                ELSE [ok |-> TRUE,
                      v |-> [k \in 1..((n * 6) \div 8) |->
                                LET g == (k - 1) \div 3
                                    r == (k - 1) % 3
                                IN  IF r = 0 THEN v(4 * g + 1) * 4 + (v(4 * g + 2) \div 16)
                                    ELSE IF r = 1
                                    THEN (v(4 * g + 2) % 16) * 16 + (v(4 * g + 3) \div 4)
                                    ELSE (v(4 * g + 3) % 4) * 64 + v(4 * g + 4)]]
    IN  Bind(StripPadding(SelectSeq(data, NotSpace)), Decode)

\* decodeURIComponent: [ok, v], ok FALSE when it throws URIError. A "%" starts an
\* escape of two hexadecimal digits; escaped bytes of 128 and more must form UTF-8.
decodeURIComponent(s) ==
    LET n == Len(s)
        EscapesOk == \A i \in 1..n :
                        s[i] = 37 => i + 2 <= n /\ HexVal(s[i + 1]) >= 0 /\ HexVal(s[i + 2]) >= 0
        Covered(i) == (i > 1 /\ s[i - 1] = 37) \/ (i > 2 /\ s[i - 2] = 37)
        Starts(i) == ~Covered(i)
        Decode(units) ==
          LET
        m == Len(units)
        esc(u) == s[units[u]] = 37
        byte(u) == IF esc(u) THEN 16 * HexVal(s[units[u] + 1]) + HexVal(s[units[u] + 2])
                   ELSE s[units[u]]
        cont(u) == u >= 1 /\ u <= m /\ esc(u) /\ byte(u) >= 128 /\ byte(u) <= 191
        need(u) == IF ~esc(u) \/ byte(u) < 128 THEN 0
                   ELSE IF byte(u) >= 194 /\ byte(u) <= 223 THEN 1
                   ELSE IF byte(u) >= 224 /\ byte(u) <= 239 THEN 2
                   ELSE IF byte(u) >= 240 /\ byte(u) <= 244 THEN 3
                   ELSE -1
        lead(u) == u >= 1 /\ u <= m /\ esc(u) /\ byte(u) >= 192
        point(u) ==
            IF need(u) = 0 THEN byte(u)
            ELSE IF need(u) = 1 THEN (byte(u) - 192) * 64 + (byte(u + 1) - 128)
            ELSE IF need(u) = 2
            THEN (byte(u) - 224) * 4096 + (byte(u + 1) - 128) * 64 + (byte(u + 2) - 128)
            ELSE (byte(u) - 240) * 262144 + (byte(u + 1) - 128) * 4096
                 + (byte(u + 2) - 128) * 64 + (byte(u + 3) - 128)
        Utf8Ok == \A u \in 1..m :
                    /\ lead(u) => /\ need(u) >= 1
                                  /\ \A j \in 1..need(u) : cont(u + j)
                                  /\ need(u) = 2 => point(u) >= 2048
                                                    /\ ~(point(u) >= 55296 /\ point(u) <= 57343)
                                  /\ need(u) = 3 => point(u) >= 65536 /\ point(u) <= 1114111
                    /\ cont(u) => \E j \in 1..3 : lead(u - j) /\ need(u - j) >= j
        \* a character above the BMP is written as its two surrogate code units
        chars(u) == IF cont(u) THEN <<>>
                    ELSE IF point(u) >= 65536
                    THEN <<55296 + ((point(u) - 65536) \div 1024),
                           56320 + ((point(u) - 65536) % 1024)>>
                    ELSE <<point(u)>>
          IN  IF ~Utf8Ok THEN [ok |-> FALSE, v |-> <<>>]
              ELSE [ok |-> TRUE, v |-> Flatten([u \in 1..m |-> chars(u)])]
    IN  IF ~EscapesOk THEN [ok |-> FALSE, v |-> <<>>]
        ELSE Bind(SelectSeq([i \in 1..n |-> i], Starts), Decode)

(***************************************************************************)
(* JSON.parse, for the texts JSON.stringify writes for a game (the keys in *)
(* that order, no white space). A parse step yields [ok, v, next]: the     *)
(* value and the index after it. Any other text is reported as a failure:  *)
(* JSON.parse throws on it or yields a value that is no such game.         *)
(***************************************************************************)
ParseFail == [ok |-> FALSE, v |-> <<>>, next |-> 0]
Parsed(v, next) == [ok |-> TRUE, v |-> v, next |-> next]

\* whether text s holds the literal lit at index i
StartsWith(s, i, lit) ==
    i >= 1 /\ i + Len(lit) - 1 <= Len(s) /\ SubSeq(s, i, i + Len(lit) - 1) = lit

RECURSIVE ParseStringBody(_, _, _)
\* the characters of a JSON string from index i up to its closing quote
ParseStringBody(s, i, acc) ==
    IF i > Len(s) THEN ParseFail
    ELSE IF s[i] = 34 THEN Parsed(acc, i + 1)
    ELSE IF s[i] < 32 THEN ParseFail
    ELSE IF s[i] # 92 THEN ParseStringBody(s, i + 1, Append(acc, s[i]))
    ELSE IF i + 1 > Len(s) THEN ParseFail
    ELSE LET e == s[i + 1]
         IN  IF e \in {34, 92, 47} THEN ParseStringBody(s, i + 2, Append(acc, e))
             ELSE IF e = 98 THEN ParseStringBody(s, i + 2, Append(acc, 8))
             ELSE IF e = 102 THEN ParseStringBody(s, i + 2, Append(acc, 12))
             ELSE IF e = 110 THEN ParseStringBody(s, i + 2, Append(acc, 10))
             ELSE IF e = 114 THEN ParseStringBody(s, i + 2, Append(acc, 13))
             ELSE IF e = 116 THEN ParseStringBody(s, i + 2, Append(acc, 9))
             ELSE IF e = 117 /\ i + 5 <= Len(s) /\ \A k \in 2..5 : HexVal(s[i + k]) >= 0
             THEN ParseStringBody(s, i + 6,
                      Append(acc, 4096 * HexVal(s[i + 2]) + 256 * HexVal(s[i + 3])
                                  + 16 * HexVal(s[i + 4]) + HexVal(s[i + 5])))
             ELSE ParseFail

ParseString(s, i) ==
    IF i >= 1 /\ i <= Len(s) /\ s[i] = 34 THEN ParseStringBody(s, i + 1, <<>>) ELSE ParseFail

IsDigit(c) == c >= 48 /\ c <= 57

RECURSIVE ParseDigits(_, _, _)
ParseDigits(s, i, acc) ==
    IF i <= Len(s) /\ IsDigit(s[i]) THEN ParseDigits(s, i + 1, 10 * acc + (s[i] - 48))
    ELSE Parsed(acc, i)

\* a non-negative integer without a leading zero
ParseNumber(s, i) ==
    IF i < 1 \/ i > Len(s) \/ ~IsDigit(s[i]) THEN ParseFail
    ELSE IF s[i] = 48 /\ i + 1 <= Len(s) /\ IsDigit(s[i + 1]) THEN ParseFail
    ELSE ParseDigits(s, i, 0)

RECURSIVE ParseStringsRest(_, _, _)
\* after an element of an array of strings: "," and the next element, or "]"
ParseStringsRest(s, i, acc) ==
    IF StartsWith(s, i, <<93>>) THEN Parsed(acc, i + 1)
    ELSE IF ~StartsWith(s, i, <<44>>) THEN ParseFail
    ELSE Bind(ParseString(s, i + 1), LAMBDA e :
            IF e.ok THEN ParseStringsRest(s, e.next, Append(acc, e.v)) ELSE ParseFail)

\* an array of strings
ParseStrings(s, i) ==
    IF ~StartsWith(s, i, <<91>>) THEN ParseFail
    ELSE IF StartsWith(s, i + 1, <<93>>) THEN Parsed(<<>>, i + 2)
    ELSE Bind(ParseString(s, i + 1), LAMBDA e :
            IF e.ok THEN ParseStringsRest(s, e.next, <<e.v>>) ELSE ParseFail)

\* a parsed value as an optional member's
AsOptional(e) == IF e.ok THEN Parsed(Some(e.v), e.next) ELSE ParseFail

\* an optional member: "," key value when the key is next, else absent
ParseOptString(s, i, key) ==
    IF StartsWith(s, i, <<44>> \o key)
    THEN Bind(ParseString(s, i + 1 + Len(key)), AsOptional)
    ELSE Parsed(Absent, i)

ParseOptStrings(s, i, key) ==
    IF StartsWith(s, i, <<44>> \o key)
    THEN Bind(ParseStrings(s, i + 1 + Len(key)), AsOptional)
    ELSE Parsed(Absent, i)

ParseOptNumber(s, i, key) ==
    IF StartsWith(s, i, <<44>> \o key)
    THEN Bind(ParseNumber(s, i + 1 + Len(key)), AsOptional)
    ELSE Parsed(Absent, i)

\* a cell object
ParseCell(s, i) ==
    IF ~StartsWith(s, i, <<123>> \o KEY_ID) THEN ParseFail
    ELSE Bind(ParseString(s, i + 1 + Len(KEY_ID)), LAMBDA id :
         IF ~id.ok \/ ~StartsWith(s, id.next, <<44>> \o KEY_TEXT) THEN ParseFail
         ELSE Bind(ParseString(s, id.next + 1 + Len(KEY_TEXT)), LAMBDA text :
         IF ~text.ok THEN ParseFail
         ELSE Bind(ParseOptString(s, text.next, KEY_PHOTOURL), LAMBDA photoUrl :
         IF ~photoUrl.ok THEN ParseFail
         ELSE Bind(ParseOptStrings(s, photoUrl.next, KEY_PHOTOS), LAMBDA photos :
         IF ~photos.ok THEN ParseFail
         ELSE Bind(ParseOptNumber(s, photos.next, KEY_COMPLETEDAT), LAMBDA at :
         IF ~at.ok \/ ~StartsWith(s, at.next, <<125>>) THEN ParseFail
         ELSE Parsed(BingoCell(id.v, text.v, photoUrl.v, photos.v, at.v), at.next + 1))))))

RECURSIVE ParseCellsRest(_, _, _)
ParseCellsRest(s, i, acc) ==
    IF StartsWith(s, i, <<93>>) THEN Parsed(acc, i + 1)
    ELSE IF ~StartsWith(s, i, <<44>>) THEN ParseFail
    ELSE Bind(ParseCell(s, i + 1), LAMBDA e :
            IF e.ok THEN ParseCellsRest(s, e.next, Append(acc, e.v)) ELSE ParseFail)

\* an array of cells
ParseCells(s, i) ==
    IF ~StartsWith(s, i, <<91>>) THEN ParseFail
    ELSE IF StartsWith(s, i + 1, <<93>>) THEN Parsed(<<>>, i + 2)
    ELSE Bind(ParseCell(s, i + 1), LAMBDA e :
            IF e.ok THEN ParseCellsRest(s, e.next, <<e.v>>) ELSE ParseFail)

\* JSON.parse of a game's text: [ok, v], ok FALSE for a text that is no such game
JsonParseGame(s) ==
    LET no == [ok |-> FALSE, v |-> <<>>]
    IN  IF ~StartsWith(s, 1, <<123>> \o KEY_ID) THEN no
        ELSE Bind(ParseString(s, 2 + Len(KEY_ID)), LAMBDA id :
        IF ~id.ok \/ ~StartsWith(s, id.next, <<44>> \o KEY_TITLE) THEN no
        ELSE Bind(ParseString(s, id.next + 1 + Len(KEY_TITLE)), LAMBDA title :
        IF ~title.ok \/ ~StartsWith(s, title.next, <<44>> \o KEY_SIZE) THEN no
        ELSE Bind(ParseNumber(s, title.next + 1 + Len(KEY_SIZE)), LAMBDA size :
        IF ~size.ok \/ ~StartsWith(s, size.next, <<44>> \o KEY_CREATEDAT) THEN no
        ELSE Bind(ParseNumber(s, size.next + 1 + Len(KEY_CREATEDAT)), LAMBDA createdAt :
        IF ~createdAt.ok THEN no
        ELSE Bind(ParseOptString(s, createdAt.next, KEY_THEME), LAMBDA theme :
        IF ~theme.ok \/ ~StartsWith(s, theme.next, <<44>> \o KEY_CELLS) THEN no
        ELSE Bind(ParseCells(s, theme.next + 1 + Len(KEY_CELLS)), LAMBDA cells :
        IF ~cells.ok \/ ~StartsWith(s, cells.next, <<125>>) \/ cells.next # Len(s) THEN no
        ELSE [ok |-> TRUE,
              v |-> BingoGame(id.v, title.v, size.v, createdAt.v, theme.v, cells.v)]))))))

\* App's share-link decode: JSON.parse(decodeURIComponent(atob(importData))) inside the
\* try block; [ok, v], ok FALSE when the catch ran (importedGame stays null)
ImportShareable(importData) ==
    LET no == [ok |-> FALSE, v |-> <<>>]
    IN  Bind(atob(importData), LAMBDA bytes :
            IF ~bytes.ok THEN no
            ELSE Bind(decodeURIComponent(bytes.v), LAMBDA json :
                    IF ~json.ok THEN no ELSE Bind(json.v, JsonParseGame)))

(***************************************************************************)
(* App.tsx: the persisted store and the load effect                        *)
(***************************************************************************)
\* JSON.stringify(games): a stored text is given by what JSON.parse makes of it,
\* [ok, v]; a value without undefined members parses back to itself
JsonStringifyGames(gs) == [ok |-> TRUE, v |-> gs]

\* a stored text JSON.parse throws on
UnparsableText == [ok |-> FALSE, v |-> <<>>]

\* faulty variant of MigrateCell: the legacy photoUrl is not looked at
MigrateCellNoLegacy(cell) ==
    [cell EXCEPT !.photos = IF IsSome(cell.photos) THEN cell.photos ELSE Some(<<>>)]

\* photos: cell.photos || (cell.photoUrl ? [cell.photoUrl] : [])
MigrateCell(cell) ==
    [cell EXCEPT !.photos =
        IF IsSome(cell.photos) THEN cell.photos
        ELSE IF IsSome(cell.photoUrl) /\ Val(cell.photoUrl) # <<>> THEN Some(<<Val(cell.photoUrl)>>)
        ELSE Some(<<>>)]

\* parsedGames.map(game => ({ ...game, cells: game.cells.map(migrate) }))
MigrateGames(parsedGames) ==
    [i \in 1..Len(parsedGames) |->
        [parsedGames[i] EXCEPT !.cells = [k \in 1..Len(@) |-> MigrateCell(@[k])]]]

\* step 2 of the load effect: loadedGames
LoadGames(stored) ==
    IF IsSome(stored) /\ Val(stored).ok THEN MigrateGames(Val(stored).v) ELSE <<>>

\* step 1 of the load effect: importedGame (optional). The import parameter is given
\* by what the try block makes of it, [ok, v] (ImportShareable of its characters).
ImportedGame(importParam) ==
    IF IsSome(importParam) /\ Val(importParam).ok THEN Some(Val(importParam).v) ELSE Absent

\* loadedGames.some(g => g.id === importedGame.id)
Exists(loadedGames, id) == \E i \in 1..Len(loadedGames) : loadedGames[i].id = id

\* faulty variant of MergeImport: the imported board is prepended without the id test
MergeImportAlways(loadedGames, importedGame) ==
    IF IsSome(importedGame) THEN <<Val(importedGame)>> \o loadedGames ELSE loadedGames

\* step 3 of the load effect: the collection handed to setGames
MergeImport(loadedGames, importedGame) ==
    IF IsSome(importedGame) /\ ~Exists(loadedGames, Val(importedGame).id)
    THEN <<Val(importedGame)>> \o loadedGames
    ELSE loadedGames

RECURSIVE SumSeq(_)
SumSeq(ns) == IF ns = <<>> THEN 0 ELSE Head(ns) + SumSeq(Tail(ns))

\* the size of JSON.stringify(games), counted in images: the data URLs are what fills
\* the storage, the rest of the text is small beside them
TextSize(gs) ==
    SumSeq([i \in 1..Len(gs) |->
        IF gs[i].cells = Undefined THEN 0 ELSE
        SumSeq([k \in 1..Len(gs[i].cells) |->
            Len(PhotosOf(gs[i].cells[k])) + Len(gs[i].cells[k].photoUrl)])])

\* localStorage.setItem throws QuotaExceededError for a text that does not fit
WriteOk(gs) == TextSize(gs) <= QuotaImages

\* the save effect: localStorage.setItem(STORAGE_KEY, JSON.stringify(games)) in a try
\* block; a write that throws leaves the stored text as it was
SaveEffect(stored, gs) == IF WriteOk(gs) THEN Some(JsonStringifyGames(gs)) ELSE stored

\* handleUpdateGame: prev.map(g => g.id === updatedGame.id ? updatedGame : g)
UpdateGames(prev, updatedGame) ==
    [i \in 1..Len(prev) |-> IF prev[i].id = updatedGame.id THEN updatedGame ELSE prev[i]]

\* handleDeleteGame: prev.filter(g => g.id !== activeGameId)
DeleteGames(prev, id) ==
    LET Keep(g) == g.id # id
    IN  SelectSeq(prev, Keep)

\* games.find(g => g.id === activeGameId), as the (optional) index of the first match
ActiveIndex ==
    IF IsSome(activeGameId) /\ \E i \in 1..Len(games) : games[i].id = Val(activeGameId)
    THEN Some(CHOOSE i \in 1..Len(games) :
                /\ games[i].id = Val(activeGameId)
                /\ \A j \in 1..(i - 1) : games[j].id # Val(activeGameId))
    ELSE Absent

\* the views of App's render: the board, the creation form, the dashboard
BoardView == pc = "ready" /\ IsSome(ActiveIndex)
FormView == pc = "ready" /\ ~IsSome(ActiveIndex) /\ isCreating
DashboardView == pc = "ready" /\ ~IsSome(ActiveIndex) /\ ~isCreating

\* the game prop of BingoBoard
ActiveGame == games[Val(ActiveIndex)]

\* BingoBoard's activeCell (optional): game.cells.find(c => c.id === selectedCellId) || null
ActiveCell ==
    IF BoardView /\ IsSome(selectedCellId)
       /\ \E k \in 1..Len(ActiveGame.cells) : ActiveGame.cells[k].id = Val(selectedCellId)
    THEN Some(ActiveGame.cells[CHOOSE k \in 1..Len(ActiveGame.cells) :
                /\ ActiveGame.cells[k].id = Val(selectedCellId)
                /\ \A j \in 1..(k - 1) : ActiveGame.cells[j].id # Val(selectedCellId)])
    ELSE Absent

(***************************************************************************)
(* Inputs of the session model                                             *)
(***************************************************************************)
\* the images compressImage resolves to (data URLs): "p", "q"
Photos == {<<112>>, <<113>>}
\* in the App session the user opens the first cell and uploads the image "p"
SessionCells == {1}
SessionPhotos == {<<112>>}

\* the title and the topic typed into the form: "A", "T"
SessionTitles == {<<65>>}
SessionTopics == {<<84>>}
\* the grid size picked in a session
SessionSizes == {3}
\* the provider's answer in a session: a single item "x"
SessionResponses(count) == {[kind |-> "array", items |-> <<<<120>>>>]}

\* a 3x3 board made on a friend's device (clock reading 0 there)
FriendGame == NewGame(CreateGameParams(<<70>>, 3, Absent, Some(ManualItems(3))), 0)

\* a board as an older version of the app stored it: a single photoUrl on each of its
\* two completed cells, and no photos lists
LegacyGame ==
    LET g == NewGame(CreateGameParams(<<76>>, 3, Absent, Some(ManualItems(3))), 0)
    IN  [g EXCEPT !.cells = [k \in 1..Len(@) |->
            IF k <= 2 THEN BingoCell(@[k].id, @[k].text, Some(<<110 + k>>), Absent, Some(0))
            ELSE BingoCell(@[k].id, @[k].text, Absent, Absent, Absent)]]

\* the stored text a session can start from: none, an older version's, an unparsable one
InitialStores == {Absent, Some(JsonStringifyGames(<<LegacyGame>>)), Some(UnparsableText)}

\* an import parameter the try block fails on
BrokenLink == [ok |-> FALSE, v |-> <<>>]

\* the readings of the friend's clock at the export
ForeignClock == {1}

\* an import parameter whose JSON is the friend's board without its cells member
CellLessLinks ==
    {[ok |-> TRUE, v |-> [GameTemplate(FriendGame, t) EXCEPT !.cells = Undefined]] :
         t \in ForeignClock}

\* import parameters from elsewhere: a friend's share link exported at clock reading t
\* there, the same link with cells edited out by hand, the same link with the cells
\* member edited out, a broken link
ForeignLinks ==
    {[ok |-> TRUE, v |-> GameTemplate(FriendGame, t)] : t \in ForeignClock}
    \cup {[ok |-> TRUE, v |-> [GameTemplate(FriendGame, t) EXCEPT !.cells = SubSeq(@, 1, 2)]] :
             t \in ForeignClock}
    \cup CellLessLinks
    \cup {BrokenLink}

Op(name, ok) == [op |-> name, ok |-> ok]

(***************************************************************************)
(* The session: App and the mounted BingoBoard                             *)
(***************************************************************************)
\* a BingoBoard that mounts starts from its useState defaults
FreshBoard ==
    /\ selectedCellId' = Absent
    /\ showConfetti' = FALSE
    /\ isProcessingImg' = FALSE

\* a pending upload outlives the BingoBoard that started it: its setState calls then
\* reach no mounted component
OrphanPending ==
    pending' = IF IsSome(pending) THEN Some([Val(pending) EXCEPT !.mounted = FALSE]) ELSE pending

\* App's first render and its two effects: the load effect hands the merged collection
\* to setGames, then the save effect runs with the games of the first render, []
Mount ==
    /\ pc = "unmounted"
    /\ LET importedGame == ImportedGame(url)
       IN  /\ games' = MergeImport(LoadGames(store), importedGame)
           /\ activeGameId' = IF IsSome(importedGame) THEN Some(Val(importedGame).id) ELSE Absent
           /\ url' = IF IsSome(importedGame) THEN Absent ELSE url
    /\ store' = SaveEffect(store, <<>>)
    /\ pc' = "mounted"
    /\ lastOp' = Op("mount", WriteOk(<<>>))
    /\ UNCHANGED <<isCreating, selectedCellId, showConfetti, isProcessingImg, pending,
                   clipboard, now, input, output>>

\* BingoBoard's render throws: game.cells.find(...) on a game prop without cells
RenderThrows == IsSome(ActiveIndex) /\ ActiveGame.cells = Undefined

\* the render with the loaded games, and the save effect it triggers; a render that
\* throws is not committed (no effect runs) and takes the whole page down
Rerender ==
    /\ pc = "mounted"
    /\ IF RenderThrows
       THEN /\ pc' = "crashed"
            /\ lastOp' = Op("crash", TRUE)
            /\ store' = store
       ELSE /\ store' = SaveEffect(store, games)
            /\ pc' = "ready"
            /\ lastOp' = Op("load", WriteOk(games))
    /\ UNCHANGED <<url, games, activeGameId, isCreating, selectedCellId, showConfetti,
                   isProcessingImg, pending, clipboard, now, input, output>>

\* the dashboard's "Start New Game" and "+" buttons
StartCreating ==
    /\ DashboardView
    /\ isCreating' = TRUE
    /\ UNCHANGED <<lastOp, pc, url, store, games, activeGameId, selectedCellId, showConfetti,
                   isProcessingImg, pending, clipboard, now, input, output>>

\* CreateGame's onCancel
CancelCreate ==
    /\ FormView
    /\ isCreating' = FALSE
    /\ UNCHANGED <<lastOp, pc, url, store, games, activeGameId, selectedCellId, showConfetti,
                   isProcessingImg, pending, clipboard, now, input, output>>

\* handleCreateGame, with the save effect of the render that follows
handleCreateGame(params) ==
    /\ LET newGame == NewGame(params, now + 1)
       IN  /\ games' = <<newGame>> \o games
           /\ activeGameId' = Some(newGame.id)
           /\ store' = SaveEffect(store, <<newGame>> \o games)
    /\ isCreating' = FALSE
    /\ now' = now + 1
    /\ lastOp' = Op("create", WriteOk(games'))
    /\ UNCHANGED <<pc, url, selectedCellId, showConfetti, isProcessingImg, pending,
                   clipboard, input, output>>

\* CreateGame.handleSubmit: returns at once on an empty title
Submit(title, size, topic, response) ==
    /\ FormView
    /\ IsSome(SubmitParams(title, size, topic, response))
    /\ handleCreateGame(Val(SubmitParams(title, size, topic, response)))

\* CreateGame.loadHolidayTemplate
Template ==
    /\ FormView
    /\ handleCreateGame(HolidayParams)

\* the dashboard's game buttons: setActiveGameId(game.id)
OpenGame(i) ==
    /\ DashboardView
    /\ i \in 1..Len(games)
    /\ activeGameId' = Some(games[i].id)
    /\ UNCHANGED <<lastOp, pc, url, store, games, isCreating, selectedCellId, showConfetti,
                   isProcessingImg, pending, clipboard, now, input, output>>

\* BingoBoard's onBack
Back ==
    /\ BoardView
    /\ activeGameId' = Absent
    /\ FreshBoard
    /\ OrphanPending
    /\ UNCHANGED <<lastOp, pc, url, store, games, isCreating, clipboard, now, input, output>>

\* handleDeleteConfirm -> handleDeleteGame, with the save effect
Delete ==
    /\ BoardView
    /\ games' = DeleteGames(games, Val(activeGameId))
    /\ store' = SaveEffect(store, DeleteGames(games, Val(activeGameId)))
    /\ activeGameId' = Absent
    /\ FreshBoard
    /\ OrphanPending
    /\ lastOp' = Op("delete", WriteOk(games'))
    /\ UNCHANGED <<pc, url, isCreating, clipboard, now, input, output>>

\* handleCellClick (the grid is behind the modal while a cell is open)
SelectCell(k) ==
    /\ BoardView
    /\ ~IsSome(ActiveCell)
    /\ k \in 1..Len(ActiveGame.cells)
    /\ selectedCellId' = Some(ActiveGame.cells[k].id)
    /\ UNCHANGED <<lastOp, pc, url, store, games, activeGameId, isCreating, showConfetti,
                   isProcessingImg, pending, clipboard, now, input, output>>

\* the modal's close button
CloseModal ==
    /\ IsSome(ActiveCell)
    /\ selectedCellId' = Absent
    /\ UNCHANGED <<lastOp, pc, url, store, games, activeGameId, isCreating, showConfetti,
                   isProcessingImg, pending, clipboard, now, input, output>>

\* handleFileUpload up to its await: the call keeps the selectedCellId and the game
\* prop of the render it was made in (one upload is in flight at a time)
StartUpload ==
    /\ IsSome(ActiveCell)
    /\ ~isProcessingImg
    /\ pending = Absent
    /\ pending' = Some([cellId |-> Val(selectedCellId), game |-> ActiveGame, mounted |-> TRUE])
    /\ isProcessingImg' = TRUE
    /\ UNCHANGED <<lastOp, pc, url, store, games, activeGameId, isCreating, selectedCellId,
                   showConfetti, clipboard, now, input, output>>

\* faulty variant of ShowConfettiAfter: the confetti is never switched on
ShowConfettiNever(triggerConfetti, mounted, shown) == shown

\* updateGameState: if (triggerConfetti) setShowConfetti(true), which reaches the
\* BingoBoard that made the call only while it is mounted
ShowConfettiAfter(triggerConfetti, mounted, shown) ==
    IF triggerConfetti /\ mounted THEN TRUE ELSE shown

\* compressImage resolved: addPhoto -> updateGameState -> handleUpdateGame, the save
\* effect, setShowConfetti(true), and finally setIsProcessingImg(false)
UploadResolve(photoUrl) ==
    /\ pc = "ready"
    /\ IsSome(pending)
    /\ LET p == Val(pending)
           newGame == [p.game EXCEPT !.cells = AddPhotoCells(@, p.cellId, photoUrl, now + 1)]
       IN  /\ games' = UpdateGames(games, newGame)
           /\ store' = SaveEffect(store, UpdateGames(games, newGame))
           /\ showConfetti' = ShowConfettiAfter(TRUE, p.mounted, showConfetti)
           /\ isProcessingImg' = IF p.mounted THEN FALSE ELSE isProcessingImg
    /\ pending' = Absent
    /\ now' = now + 1
    /\ lastOp' = Op("addPhoto", WriteOk(games'))
    /\ UNCHANGED <<pc, url, activeGameId, isCreating, selectedCellId, clipboard, input, output>>

\* faulty variant of UploadReject: no finally block, the flag stays as it is
UploadRejectNoFinally ==
    /\ pc = "ready"
    /\ IsSome(pending)
    /\ pending' = Absent
    /\ lastOp' = Op("uploadFailed", TRUE)
    /\ UNCHANGED <<pc, url, store, games, activeGameId, isCreating, selectedCellId,
                   showConfetti, isProcessingImg, clipboard, now, input, output>>

\* compressImage rejected: the alert, and finally setIsProcessingImg(false)
UploadReject ==
    /\ pc = "ready"
    /\ IsSome(pending)
    /\ isProcessingImg' = IF Val(pending).mounted THEN FALSE ELSE isProcessingImg
    /\ pending' = Absent
    /\ lastOp' = Op("uploadFailed", TRUE)
    /\ UNCHANGED <<pc, url, store, games, activeGameId, isCreating, selectedCellId,
                   showConfetti, clipboard, now, input, output>>

\* removePhoto(activeCell.id, idx) from a gallery delete button -> updateGameState ->
\* handleUpdateGame, with the save effect
RemovePhoto(idx) ==
    /\ IsSome(ActiveCell)
    /\ idx \in 0..(Len(PhotosOf(Val(ActiveCell))) - 1)
    /\ LET newGame == [ActiveGame EXCEPT
                          !.cells = RemovePhotoCells(@, Val(ActiveCell).id, idx)]
       IN  /\ games' = UpdateGames(games, newGame)
           /\ store' = SaveEffect(store, UpdateGames(games, newGame))
    /\ showConfetti' = ShowConfettiAfter(FALSE, TRUE, showConfetti)
    /\ lastOp' = Op("removePhoto", WriteOk(games'))
    /\ UNCHANGED <<pc, url, activeGameId, isCreating, selectedCellId,
                   isProcessingImg, pending, clipboard, now, input, output>>

\* setTimeout(() => setShowConfetti(false), 5000)
ConfettiOff ==
    /\ pc = "ready"
    /\ showConfetti
    /\ showConfetti' = FALSE
    /\ UNCHANGED <<lastOp, pc, url, store, games, activeGameId, isCreating, selectedCellId,
                   isProcessingImg, pending, clipboard, now, input, output>>

\* the stored collection's length (0 for no or an unparsable text)
StoredCount == IF IsSome(store) /\ Val(store).ok THEN Len(Val(store).v) ELSE 0

\* the page is loaded again: with the URL it has, or from a link
Reload(link) ==
    /\ pc \in {"ready", "crashed"}
    /\ link \in {Absent, url} \cup {Some(l) : l \in ForeignLinks}
    /\ url' = link
    /\ pc' = "unmounted"
    /\ games' = <<>>
    /\ activeGameId' = Absent
    /\ isCreating' = FALSE
    /\ FreshBoard
    /\ pending' = Absent
    /\ lastOp' = Op("reload", TRUE)
    /\ UNCHANGED <<store, clipboard, now, input, output>>

Init ==
    /\ pc = "unmounted"
    /\ url \in {Absent} \cup {Some(l) : l \in ForeignLinks}
    /\ store \in InitialStores
    /\ games = <<>>
    /\ activeGameId = Absent
    /\ isCreating = FALSE
    /\ selectedCellId = Absent
    /\ showConfetti = FALSE
    /\ isProcessingImg = FALSE
    /\ pending = Absent
    /\ clipboard = Absent
    /\ now = 0
    /\ lastOp = Op("none", TRUE)
    /\ input = <<>>
    /\ output = Absent

\* the clock has readings left, and the collection has room
CanCreate == now < MaxTime /\ Len(games) < MaxGames

\* the photos of the open cell
OpenPhotos == IF IsSome(ActiveCell) THEN PhotosOf(Val(ActiveCell)) ELSE <<>>

Next ==
    \/ Mount
    \/ Rerender
    \/ StartCreating
    \/ CancelCreate
    \/ \E title \in SessionTitles, size \in SessionSizes, topic \in SessionTopics :
          \E response \in SessionResponses(size * size) :
             CanCreate /\ Submit(title, size, topic, response)
    \/ CanCreate /\ Template
    \/ \E i \in 1..MaxGames : OpenGame(i)
    \/ Back
    \/ Delete
    \/ \E k \in SessionCells : SelectCell(k)
    \/ CloseModal
    \/ Len(OpenPhotos) < MaxSessionPhotos /\ StartUpload
    \/ \E photoUrl \in SessionPhotos : now < MaxTime /\ UploadResolve(photoUrl)
    \/ UploadReject
    \/ \E idx \in 0..(MaxSessionPhotos - 1) : RemovePhoto(idx)
    \/ ConfettiOff
    \/ Reload(url)
    \/ \E l \in ForeignLinks : StoredCount < MaxGames /\ Reload(Some(l))

Spec == Init /\ [][Next]_vars

(***************************************************************************)
(* The board session: one board made by the form, open in BingoBoard       *)
(***************************************************************************)
\* addPhoto on each of the cells first..last of game, in that order, at clock reading t
RECURSIVE AttachedFrom(_, _, _, _)
AttachedFrom(game, first, last, t) ==
    IF first > last THEN game
    ELSE AttachedFrom([game EXCEPT !.cells = AddPhotoCells(@, game.cells[first].id, <<112>>, t)],
                      first + 1, last, t)

\* board session: the cells the user opens, by position in the grid
BoardCells == {1, 2}

\* the boards a board session starts from: one just created, and the same board after
\* a photo went onto every cell but the first
BoardStarts ==
    LET g == NewGame(Val(SubmitParams(<<65>>, 3, <<>>, [kind |-> "error", items |-> <<>>])), 1)
    IN  {[game |-> g, stored |-> g, op |-> "create"],
         [game |-> AttachedFrom(g, 2, Len(g.cells), 1),
          stored |-> AttachedFrom(g, 2, Min(1 + QuotaImages, Len(g.cells)), 1),
          op |-> "addPhoto"]}

BoardInit ==
    \E b \in BoardStarts :
        /\ pc = "ready"
        /\ url = Absent
        /\ store = Some(JsonStringifyGames(<<b.stored>>))
        /\ games = <<b.game>>
        /\ activeGameId = Some(b.game.id)
        /\ isCreating = FALSE
        /\ selectedCellId = Absent
        /\ showConfetti = FALSE
        /\ isProcessingImg = FALSE
        /\ pending = Absent
        /\ clipboard = Absent
        /\ now = 1
        /\ lastOp = Op(b.op, WriteOk(<<b.game>>))
        /\ input = <<>>
        /\ output = Absent

BoardNext ==
    \/ \E i \in 1..MaxGames : OpenGame(i)
    \/ Back
    \/ Delete
    \/ \E k \in BoardCells : SelectCell(k)
    \/ CloseModal
    \/ Len(OpenPhotos) < MaxPhotos /\ StartUpload
    \/ \E photoUrl \in Photos : now < MaxBoardTime /\ UploadResolve(photoUrl)
    \/ UploadReject
    \/ \E idx \in 0..(MaxPhotos - 1) : RemovePhoto(idx)
    \/ ConfettiOff

SpecBoard == BoardInit /\ [][BoardNext]_vars

(***************************************************************************)
(* The creation flow: the form filled in, then submitted or templated      *)
(***************************************************************************)
MaxExtra == 1   \* the items a provider's array has beyond the count asked for

\* a provider's array of n items: "x1", "x2", ...
ProviderItems(n) == [k \in 1..n |-> <<120>> \o Digits(k)]

\* the provider's outcomes for a request of count items: a failure, an empty text, a
\* text that is no JSON, an array of too few, enough or too many items, a JSON string (short, long)
ProviderResponses(count) ==
    {[kind |-> "error", items |-> <<>>], [kind |-> "empty", items |-> <<>>],
     [kind |-> "unparsable", items |-> <<>>]}
    \cup {[kind |-> "array", items |-> ProviderItems(n)] :
             n \in {0, 1} \cup ((count - 1)..(count + MaxExtra))}
    \cup {[kind |-> "text", items |-> [k \in 1..n |-> <<122>>]] : n \in {1, count}}

\* the form as filled in: title "" or "A", a size, topic "" or "T", and (with a topic)
\* what the provider will answer
CreateInputs ==
    {[title |-> title, size |-> size, topic |-> <<>>, response |-> [kind |-> "error", items |-> <<>>]] :
        title \in {<<>>, <<65>>}, size \in FormSizes}
    \cup UNION {{[title |-> title, size |-> size, topic |-> <<84>>, response |-> r] :
                    r \in ProviderResponses(size * size)} :
                title \in {<<>>, <<65>>}, size \in FormSizes}

\* a first session with the creation form open
CreateInit ==
    /\ input \in CreateInputs
    /\ pc = "ready"
    /\ url = Absent
    /\ store = Some(JsonStringifyGames(<<>>))
    /\ games = <<>>
    /\ activeGameId = Absent
    /\ isCreating = TRUE
    /\ selectedCellId = Absent
    /\ showConfetti = FALSE
    /\ isProcessingImg = FALSE
    /\ pending = Absent
    /\ clipboard = Absent
    /\ now = 0
    /\ lastOp = Op("load", TRUE)
    /\ output = Absent

SubmitForm == Submit(input.title, input.size, input.topic, input.response)

CreateNext ==
    \/ SubmitForm
    \/ Template

SpecCreate == CreateInit /\ [][CreateNext]_vars

\* C1: a board that the creation flow has just made (manual form, holiday template, or
\* AI-assisted whatever the provider answered) has a size of 3, 4 or 5 and exactly
\* size * size cells.
C1_CreatedBoardHasAllCells ==
    lastOp.op = "create" =>
        /\ Len(games) = 1
        /\ games[1].size \in FormSizes
        /\ Len(games[1].cells) = games[1].size * games[1].size

\* the provider gave too few items, and the board was made by the form
C1_Witness_TooFewItems ==
    /\ lastOp.op = "create"
    /\ games[1].title = input.title
    /\ input.response.kind = "array"
    /\ Len(input.response.items) = input.size * input.size - 1
    /\ games[1].cells[Len(games[1].cells)].text = BonusItem(0)

(***************************************************************************)
(* The win-line evaluator over completion patterns                         *)
(***************************************************************************)
MaxLines == 2    \* lines completed together in a pattern of a 4x4 or 5x5 board
MaxToggle == 1   \* cells added to or taken from such a pattern

\* the lines of a size x size grid, as index sets
GridLines(size) ==
    {Range(RowIndices(size, r)) : r \in 0..(size - 1)}
    \cup {Range(ColIndices(size, c)) : c \in 0..(size - 1)}
    \cup {Range(Diag1Indices(size)), Range(Diag2Indices(size))}

RECURSIVE UpTo(_, _)
\* the sets of at most n elements of S
UpTo(S, n) ==
    IF n = 0 THEN {{}}
    ELSE LET smaller == UpTo(S, n - 1)
         IN  smaller \cup {T \cup {x} : T \in smaller, x \in S}

\* the symmetric difference
Toggle(A, T) == (A \ T) \cup (T \ A)

\* the cell indices of a size x size grid
GridCells(size) == 0..(size * size - 1)

\* input is a completion pattern: any of them on a 3x3 board; on the larger boards a
\* few whole lines, or the whole grid, with a few cells toggled
IsPattern(in) ==
    \E size \in FormSizes :
        \/ /\ size = 3
           /\ \E P \in SUBSET GridCells(size) : in = [size |-> size, completed |-> P]
        \/ /\ size > 3
           /\ \E ls \in UpTo(GridLines(size), MaxLines), T \in UpTo(GridCells(size), MaxToggle) :
                 in = [size |-> size, completed |-> Toggle(UNION ls, T)]
        \/ /\ size > 3
           /\ \E T \in UpTo(GridCells(size), MaxToggle) :
                 in = [size |-> size, completed |-> GridCells(size) \ T]

\* a board of the form with one photo on each cell of the pattern
PatternGame(size, completed) ==
    LET g == NewGame(Val(SubmitParams(<<65>>, size, <<>>, [kind |-> "error", items |-> <<>>])), 0)
    IN  [g EXCEPT !.cells = [k \in 1..Len(@) |->
            IF (k - 1) \in completed
            THEN [@[k] EXCEPT !.photos = Some(<<<<112>>>>), !.completedAt = Some(1)]
            ELSE @[k]]]

WinInit ==
    /\ IsPattern(input)
    /\ output = Absent
    /\ pc = "pattern"
    /\ url = Absent
    /\ store = Absent
    /\ games = <<>>
    /\ activeGameId = Absent
    /\ isCreating = FALSE
    /\ selectedCellId = Absent
    /\ showConfetti = FALSE
    /\ isProcessingImg = FALSE
    /\ pending = Absent
    /\ clipboard = Absent
    /\ now = 0
    /\ lastOp = Op("none", TRUE)

\* BingoBoard renders the board: the useMemo, and getCellStyle for every cell
Render ==
    /\ pc = "pattern"
    /\ LET game == PatternGame(input.size, input.completed)
       IN  output' = Some([winStatus |-> WinStatus(game),
                           isFullHouse |-> IsFullHouse(game),
                           styles |-> CellStyles(game)])
    /\ pc' = "rendered"
    /\ UNCHANGED <<url, store, games, activeGameId, isCreating, selectedCellId, showConfetti,
                   isProcessingImg, pending, clipboard, now, lastOp, input>>

WinNext == Render

SpecWin == WinInit /\ [][WinNext]_vars

\* the row, the column of index i, and whether every cell of them is in the pattern
RowWins(size, completed, i) ==
    \A c \in 0..(size - 1) : ((i \div size) * size + c) \in completed
ColWins(size, completed, i) ==
    \A r \in 0..(size - 1) : (r * size + (i % size)) \in completed
\* i lies on a diagonal (main: k*N+k, anti: (k+1)*N-(k+1)) whose cells all are in the pattern
DiagWins(size, completed, i) ==
    \/ /\ \E k \in 0..(size - 1) : i = k * size + k
       /\ \A k \in 0..(size - 1) : (k * size + k) \in completed
    \/ /\ \E k \in 0..(size - 1) : i = (k + 1) * size - (k + 1)
       /\ \A k \in 0..(size - 1) : ((k + 1) * size - (k + 1)) \in completed

\* the line categories index i belongs to
Categories(size, completed, i) ==
    {t \in {"row"} : RowWins(size, completed, i)}
    \cup {t \in {"col"} : ColWins(size, completed, i)}
    \cup {t \in {"diag"} : DiagWins(size, completed, i)}

\* C5: on every rendered pattern of a 3x3, 4x4 or 5x5 board, index i carries the tag
\* row iff its whole row is complete, col iff its whole column is, diag iff it lies on
\* a diagonal that is complete; it carries no other tag, and none twice.
C5_TagsAreTheWinningLines ==
    pc = "rendered" =>
        LET tags == Val(output).winStatus
        IN  /\ DOMAIN tags = 0..(input.size * input.size - 1)
            /\ \A i \in DOMAIN tags :
                  /\ Range(tags[i]) = Categories(input.size, input.completed, i)
                  /\ Len(tags[i]) = Cardinality(Range(tags[i]))

\* a rendered pattern with a cell tagged for its row and for its column, and a cell
\* without a tag beside a complete one
C5_Witness_RowAndColumn ==
    /\ pc = "rendered"
    /\ input.size = 5
    /\ \E i \in DOMAIN Val(output).winStatus : Val(output).winStatus[i] = <<"row", "col">>
    /\ \E i \in input.completed : Val(output).winStatus[i] = <<>>

\* the category the priority order gives index i
Category(size, completed, i) ==
    LET cats == Categories(size, completed, i)
    IN  IF i \in completed /\ completed = 0..(size * size - 1) THEN "fullhouse"
        ELSE IF i \in completed /\ Cardinality(cats) >= 2 THEN "multi"
        ELSE IF i \in completed /\ "diag" \in cats THEN "diag"
        ELSE IF i \in completed /\ "col" \in cats THEN "col"
        ELSE IF i \in completed /\ "row" \in cats THEN "row"
        ELSE IF i \in completed THEN "complete"
        ELSE "incomplete"

\* C6: on every rendered pattern, the full-house flag is up exactly when every cell is
\* complete, and each cell is shown in the first category that applies of full house,
\* two or more line categories, diag, col, row, complete, incomplete.
C6_StyleFollowsPriority ==
    pc = "rendered" =>
        /\ Val(output).isFullHouse <=> (input.completed = 0..(input.size * input.size - 1))
        /\ \A i \in 0..(input.size * input.size - 1) :
              Val(output).styles[i + 1] = Category(input.size, input.completed, i)

\* a rendered pattern of exactly the two diagonals of a board with a centre cell: the
\* centre is shown as diag
C6_Witness_CentreOnTwoDiagonals ==
    /\ pc = "rendered"
    /\ input.size = 5
    /\ input.completed = Range(Diag1Indices(5)) \cup Range(Diag2Indices(5))
    /\ Val(output).styles[13] = "diag"
    /\ Val(output).winStatus[12] = <<"diag">>

(***************************************************************************)
(* Properties of the board session                                         *)
(***************************************************************************)
\* the (first) board of gs with the given id, optional
BoardById(gs, id) ==
    IF Exists(gs, id) THEN Some(gs[CHOOSE i \in 1..Len(gs) : gs[i].id = id /\ \A j \in 1..(i - 1) : gs[j].id # id])
    ELSE Absent

\* the (first) cell of game with the given id, optional
CellById(game, cellId) ==
    IF \E k \in 1..Len(game.cells) : game.cells[k].id = cellId
    THEN Some(game.cells[CHOOSE k \in 1..Len(game.cells) :
                 game.cells[k].id = cellId /\ \A j \in 1..(k - 1) : game.cells[j].id # cellId])
    ELSE Absent

\* every cell counts as complete exactly when it has photos, and then carries completedAt
CellsSound ==
    \A i \in 1..Len(games) : \A k \in 1..Len(games[i].cells) :
        LET c == games[i].cells[k]
        IN  /\ ((k - 1) \in CompletedIndices(games[i])) <=> (Len(PhotosOf(c)) > 0)
            /\ (Len(PhotosOf(c)) > 0) <=> IsSome(c.completedAt)

\* an upload that resolves leaves its cell with the photo added last and completedAt set
AttachStep ==
    \A photoUrl \in Photos :
        (UploadResolve(photoUrl) /\ Exists(games, Val(pending).game.id)) =>
            LET cell == Val(CellById(Val(BoardById(games', Val(pending).game.id)), Val(pending).cellId))
            IN  /\ Len(PhotosOf(cell)) >= 1
                /\ PhotosOf(cell)[Len(PhotosOf(cell))] = photoUrl
                /\ IsSome(cell.completedAt)

\* a removal at a valid index takes exactly that photo from the open cell, and with the
\* last photo goes completedAt
RemoveStep ==
    \A idx \in 0..(MaxPhotos - 1) :
        RemovePhoto(idx) =>
            LET before == PhotosOf(Val(ActiveCell))
                after == Val(ActiveCell')
            IN  /\ PhotosOf(after) = SubSeq(before, 1, idx) \o SubSeq(before, idx + 2, Len(before))
                /\ Len(before) = 1 => (PhotosOf(after) = <<>> /\ after.completedAt = Absent)

\* C4: in the board session a cell is complete iff its photos list is non-empty, and
\* completedAt is set exactly while it is; every attach appends and stamps, every
\* removal at a valid index takes one photo, and the removal of the last one leaves the
\* cell incomplete with no photos and no completedAt.
C4_CompleteIffPhotos == CellsSound /\ [][CellsSound' /\ AttachStep /\ RemoveStep]_vars

\* two photos were attached, and a removal has just emptied the open cell
C4_Witness_AllRemoved ==
    /\ lastOp.op = "removePhoto"
    /\ now = MaxBoardTime
    /\ IsSome(ActiveCell)
    /\ PhotosOf(Val(ActiveCell)) = <<>>
    /\ Val(ActiveCell).completedAt = Absent
    /\ CompletedIndices(ActiveGame) = {}

\* the board an upload belongs to is full house in the collection gs
FullIn(gs, id) == IsSome(BoardById(gs, id)) /\ IsFullHouse(Val(BoardById(gs, id)))

\* C9 as stated: an attach switches the confetti on exactly when the board was not full
\* house before it and is full house after it.
C9_SignalOnlyOnFullHouse ==
    [][\A photoUrl \in Photos :
          (UploadResolve(photoUrl) /\ ~showConfetti) =>
              (showConfetti' <=> (/\ ~FullIn(games, Val(pending).game.id)
                                  /\ FullIn(games', Val(pending).game.id)))]_vars

\* C9 as the code has it: every attach that completes while the BingoBoard that started
\* it is mounted switches the confetti on, whatever the full-house status before and
\* after; an attach completing after that BingoBoard was left, and every removal,
\* leave the confetti as it is.
C9_SignalOnEveryAttach ==
    [][/\ \A photoUrl \in Photos :
             UploadResolve(photoUrl) =>
                 showConfetti' = (IF Val(pending).mounted THEN TRUE ELSE showConfetti)
       /\ \A idx \in 0..(MaxPhotos - 1) : RemovePhoto(idx) => showConfetti' = showConfetti]_vars

\* the confetti is on after an attach to a board that is not full house
C9_Witness_ConfettiWithoutFullHouse ==
    /\ lastOp.op = "addPhoto"
    /\ BoardView
    /\ showConfetti
    /\ Cardinality(CompletedIndices(ActiveGame)) = 1
    /\ ~IsFullHouse(ActiveGame)

(***************************************************************************)
(* The share link, character by character: handleShare on one device, the  *)
(* page opened with the link on another                                    *)
(***************************************************************************)
MaxShareTime == 2   \* the last clock reading of an export

\* titles of shared boards: A, ~, ~~~, "a b", e-acute, a double quote, +, "A&B"
ShareTitles == {<<65>>, <<126>>, <<126, 126, 126>>, <<97, 32, 98>>, <<233>>, <<34>>, <<43>>,
                <<65, 38, 66>>}

\* a 3x3 board of the form with the given title, made at clock reading 0
TitledGame(title) ==
    NewGame(Val(SubmitParams(title, 3, <<>>, [kind |-> "error", items |-> <<>>])), 0)

\* the board as an older version of the app stored it, after this version's load: the
\* first cell completed with the single photo "o"
LegacyTitledGame(title) ==
    LET g == TitledGame(title)
        stored == [g EXCEPT !.cells = [k \in 1..Len(@) |->
                      IF k = 1 THEN BingoCell(@[k].id, @[k].text, Some(<<111>>), Absent, Some(0))
                      ELSE BingoCell(@[k].id, @[k].text, Absent, Absent, Absent)]]
    IN  LoadGames(Some(JsonStringifyGames(<<stored>>)))[1]

\* the boards shared: without photos, with the photo "p" attached to the first cell, and
\* loaded from an older version's store
ShareGames ==
    UNION {{TitledGame(title),
            [TitledGame(title) EXCEPT !.cells = AddPhotoCells(@, @[1].id, <<112>>, 0)],
            LegacyTitledGame(title)} : title \in ShareTitles}

ShareInit ==
    /\ input \in {[game |-> g, t |-> t] : g \in ShareGames, t \in 1..MaxShareTime}
    /\ output = Absent
    /\ clipboard = Absent
    /\ pc = "board"
    /\ url = Absent
    /\ store = Absent
    /\ games = <<>>
    /\ activeGameId = Absent
    /\ isCreating = FALSE
    /\ selectedCellId = Absent
    /\ showConfetti = FALSE
    /\ isProcessingImg = FALSE
    /\ pending = Absent
    /\ now = 0
    /\ lastOp = Op("none", TRUE)

\* handleShare: the token of shareUrl, handed to navigator.share or to the clipboard
handleShare ==
    /\ pc = "board"
    /\ clipboard' = Some(ShareToken(input.game, input.t))
    /\ pc' = "shared"
    /\ UNCHANGED <<url, store, games, activeGameId, isCreating, selectedCellId, showConfetti,
                   isProcessingImg, pending, now, lastOp, input, output>>

\* the recipient opens shareUrl: step 1 of the load effect, on the import parameter
OpenLink ==
    /\ pc = "shared"
    /\ output' = Some(ImportShareable(SearchParamsGet(Val(clipboard))))
    /\ pc' = "imported"
    /\ UNCHANGED <<url, store, games, activeGameId, isCreating, selectedCellId, showConfetti,
                   isProcessingImg, pending, clipboard, now, lastOp, input>>

ShareNext ==
    \/ handleShare
    \/ OpenLink

SpecShare == ShareInit /\ [][ShareNext]_vars

\* C7: once the recipient has opened the link, the import has succeeded with a board
\* of the same title, size and task texts in the same order, with no photos and no
\* completedAt on any cell, and with another id and createdAt than the shared board's.
C7_RoundTripKeepsTasks ==
    pc = "imported" =>
        /\ Val(output).ok
        /\ LET b == input.game
               r == Val(output).v
           IN  /\ r.title = b.title
               /\ r.size = b.size
               /\ Len(r.cells) = Len(b.cells)
               /\ \A k \in 1..Len(b.cells) :
                     /\ r.cells[k].text = b.cells[k].text
                     /\ PhotosOf(r.cells[k]) = <<>>
                     /\ r.cells[k].completedAt = Absent
               /\ r.id # b.id
               /\ r.createdAt # b.createdAt

\* the board with all that was photographed taken from it
PhotoFree(game) ==
    [game EXCEPT !.cells = [k \in 1..Len(@) |->
        [@[k] EXCEPT !.photoUrl = Absent, !.photos = Some(<<>>), !.completedAt = Absent]]]

\* C8: the token of a shared board is the token of the board without its photo
\* content (photos, completedAt, a legacy photoUrl) exported at the same instant, and
\* the board the recipient gets holds no photo.
C8_TokenCarriesNoPhoto ==
    /\ pc \in {"shared", "imported"} =>
          Val(clipboard) = ShareToken(PhotoFree(input.game), input.t)
    /\ (pc = "imported" /\ Val(output).ok) =>
          \A k \in 1..Len(Val(output).v.cells) :
              /\ Val(output).v.cells[k].photoUrl = Absent
              /\ PhotosOf(Val(output).v.cells[k]) = <<>>

(***************************************************************************)
(* Properties of the App session                                           *)
(***************************************************************************)
\* C2: every board of the in-memory collection has size * size cells.
C2_EveryBoardHasAllCells ==
    \A i \in 1..Len(games) : Len(games[i].cells) = games[i].size * games[i].size

\* C3: no two boards of the in-memory collection have the same id.
C3_BoardIdsUnique ==
    \A i, j \in 1..Len(games) : i # j => games[i].id # games[j].id

\* the boards of a stored text (none for no or an unparsable text)
StoredGames(stored) == IF IsSome(stored) /\ Val(stored).ok THEN Val(stored).v ELSE <<>>

\* C10: a write that fails leaves the store with every board persisted before it: a
\* handler whose write fails changes the collection in memory and not the store, and
\* when the write of the loaded collection fails at startup (no board imported), every
\* loaded board is still in the store.
C10_FailedWriteKeepsPersisted ==
    [][/\ (pc = "ready" /\ pc' = "ready" /\ games' # games /\ ~WriteOk(games')) => store' = store
       /\ (Rerender /\ ~WriteOk(games) /\ activeGameId = Absent) =>
              \A i \in 1..Len(games') : Exists(StoredGames(store'), games'[i].id)]_vars

(***************************************************************************)
(* Properties of the load effect                                           *)
(***************************************************************************)
\* C11: when the page mounts with a link that parses to a board, a board whose id the
\* loaded collection already has adds no entry (the collection handed on is the loaded
\* one, entry by entry) and is opened; a board whose id is absent becomes the first
\* entry, the loaded collection follows it unchanged, and it is opened.
C11_MergeAddsNoDuplicate ==
    [][(Mount /\ IsSome(ImportedGame(url))) =>
          LET loaded == LoadGames(store)
              imported == Val(ImportedGame(url))
          IN  /\ activeGameId' = Some(imported.id)
              /\ IF \E i \in 1..Len(loaded) : loaded[i].id = imported.id
                 THEN /\ Len(games') = Len(loaded)
                      /\ \A i \in 1..Len(loaded) : games'[i] = loaded[i]
                 ELSE /\ Len(games') = Len(loaded) + 1
                      /\ games'[1] = imported
                      /\ \A i \in 1..Len(loaded) : games'[i + 1] = loaded[i]]_vars

\* the page has mounted from a friend's link a second time: the board imported the
\* first time, with the photo attached since, is the only entry and is opened
C11_Witness_LinkOpenedTwice ==
    /\ pc = "mounted"
    /\ lastOp.op = "mount"
    /\ Len(games) = 1
    /\ activeGameId = Some(games[1].id)
    /\ games[1].title = FriendGame.title
    /\ Len(games[1].cells) = 9
    /\ Len(PhotosOf(games[1].cells[1])) = 1

\* a link that parses to a board record: the try block succeeds and the value has cells
WellFormedLink(link) == link.ok /\ link.v.cells # Undefined

\* C12: when the page mounts with a link that does not decode to a board record, the
\* import is skipped (the collection handed on is the migrated stored one and no board
\* is opened), and no step of the session takes the page down.
C12_MalformedLinkIsSkipped ==
    [][/\ (Mount /\ IsSome(url) /\ ~WellFormedLink(Val(url))) =>
              (games' = LoadGames(store) /\ activeGameId' = Absent)
       /\ pc' # "crashed"]_vars

(***************************************************************************)
(* removePhoto as a function of its arguments                              *)
(***************************************************************************)
\* the lists of at most n photos
PhotoLists(n) == UNION {[1..k -> Photos] : k \in 0..n}

\* a 3x3 board whose first cell holds the photos ps and whose second cell holds one
RemoveGame(ps) ==
    LET g == AttachedFrom(NewGame(CreateGameParams(<<65>>, 3, Absent, Some(ManualItems(3))), 1),
                          2, 2, 1)
    IN  [g EXCEPT !.cells[1].photos = Some(ps),
                  !.cells[1].completedAt = IF ps = <<>> THEN Absent ELSE Some(1)]

\* the cell ids handed to removePhoto: the first cell's, the second cell's, none of the board's
RemoveCellIds == {CellId(1, 0), CellId(1, 1), <<63>>}

RemoveInit ==
    /\ pc = "remove"
    /\ \E ps \in PhotoLists(MaxPhotos), cellId \in RemoveCellIds,
          photoIndex \in (0 - MaxPhotos - 1)..(MaxPhotos + 1) :
            input = [game |-> RemoveGame(ps), cellId |-> cellId, photoIndex |-> photoIndex]
    /\ url = Absent
    /\ store = Absent
    /\ games = <<>>
    /\ activeGameId = Absent
    /\ isCreating = FALSE
    /\ selectedCellId = Absent
    /\ showConfetti = FALSE
    /\ isProcessingImg = FALSE
    /\ pending = Absent
    /\ clipboard = Absent
    /\ now = 1
    /\ lastOp = Op("none", TRUE)
    /\ output = Absent

\* removePhoto(cellId, photoIndex) on the game prop: the cells handed to updateGameState
RemoveAt ==
    /\ pc = "remove"
    /\ output' = Some(RemovePhotoCells(input.game.cells, input.cellId, input.photoIndex))
    /\ pc' = "removed"
    /\ UNCHANGED <<url, store, games, activeGameId, isCreating, selectedCellId, showConfetti,
                   isProcessingImg, pending, clipboard, now, lastOp, input>>

RemoveNext == RemoveAt

SpecRemove == RemoveInit /\ [][RemoveNext]_vars

\* the photos of the cell of the game with the given id (none when there is no such cell)
PhotosAt(game, cellId) ==
    IF IsSome(CellById(game, cellId)) THEN PhotosOf(Val(CellById(game, cellId))) ELSE <<>>

UpdatedId ==
    IF IsSome(pending) /\ \E photoUrl \in Photos : UploadResolve(photoUrl)
    THEN Some(Val(pending).game.id)
    ELSE IF \E idx \in 0..(MaxPhotos - 1) : RemovePhoto(idx) THEN Some(ActiveGame.id)
    ELSE Absent

\* C14: a step that updates a board (a photo attached or removed) keeps the number and
\* order of the boards, changes nothing when no board has the id, changes no board with
\* another id, changes at most one board, and changes nothing but cells in it; an
\* attach completing after its board was deleted leaves the collection as it is.
C14_UpdateTouchesOneBoard ==
    [][IsSome(UpdatedId) =>
          /\ Len(games') = Len(games)
          /\ \A i \in 1..Len(games) :
                /\ games[i].id # Val(UpdatedId) => games'[i] = games[i]
                /\ [games'[i] EXCEPT !.cells = games[i].cells] = games[i]
          /\ Cardinality({i \in 1..Len(games) : games'[i] # games[i]}) <= 1
          /\ ~Exists(games, Val(UpdatedId)) => games' = games]_vars

(***************************************************************************)
(* generateBingoItems as a function of the provider's answer               *)
(***************************************************************************)
\* the topics asked for: "T", "U"
ItemTopics == {<<84>>, <<85>>}

ItemsInit ==
    /\ pc = "generate"
    /\ \E topic \in ItemTopics, size \in FormSizes :
          \E response \in ProviderResponses(size * size) :
             input = [topic |-> topic, count |-> size * size, response |-> response]
    /\ url = Absent
    /\ store = Absent
    /\ games = <<>>
    /\ activeGameId = Absent
    /\ isCreating = FALSE
    /\ selectedCellId = Absent
    /\ showConfetti = FALSE
    /\ isProcessingImg = FALSE
    /\ pending = Absent
    /\ clipboard = Absent
    /\ now = 0
    /\ lastOp = Op("none", TRUE)
    /\ output = Absent

\* await generateBingoItems(topic, count)
Generate ==
    /\ pc = "generate"
    /\ output' = Some(GeneratedItems(input.topic, input.count, input.response))
    /\ pc' = "generated"
    /\ UNCHANGED <<url, store, games, activeGameId, isCreating, selectedCellId, showConfetti,
                   isProcessingImg, pending, clipboard, now, lastOp, input>>

ItemsNext == Generate

SpecItems == ItemsInit /\ [][ItemsNext]_vars

\* the items of the provider's array that reach the result (none for any other answer)
ProvidedCount(count, response) ==
    IF response.kind = "array" THEN Min(Len(response.items), count) ELSE 0

\* the provider outcomes of C15: a failure, no text, a text that is no JSON, an array
Listed(response) == response.kind \in {"error", "empty", "unparsable", "array"}

\* C15 as stated: for a listed provider outcome the result is an array of exactly count
\* items; the provider's items come first in their order; and the text at a position
\* filled with a placeholder is the same for every listed outcome that leaves that
\* position to a placeholder (same count, same topic).
C15_PlaceholderByPosition ==
    (pc = "generated" /\ Listed(input.response)) =>
        LET items == Val(output).items
            provided == ProvidedCount(input.count, input.response)
        IN  /\ Val(output).isArray
            /\ Len(items) = input.count
            /\ \A k \in 1..provided : items[k] = input.response.items[k]
            /\ \A other \in {r \in ProviderResponses(input.count) : Listed(r)} :
                  \A k \in 1..input.count :
                     (k > provided /\ k > ProvidedCount(input.count, other)) =>
                        items[k] = generateBingoItems(input.topic, input.count, other)[k]

\* C15 as the code has it: for a listed provider outcome the result is an array of
\* exactly count items; after the n items taken from the provider's array, position
\* n + j holds "Bonus Item j"; without an array, position k holds "Task k (topic)".
C15_PlaceholderAfterProvided ==
    (pc = "generated" /\ Listed(input.response)) =>
        LET items == Val(output).items
            provided == ProvidedCount(input.count, input.response)
        IN  /\ Val(output).isArray
            /\ Len(items) = input.count
            /\ \A k \in 1..provided : items[k] = input.response.items[k]
            /\ \A k \in (provided + 1)..input.count :
                  items[k] = IF input.response.kind = "array"
                             THEN STR_BONUS \o Digits(k - provided)
                             ELSE STR_TASK \o Digits(k) \o <<32, 40>> \o input.topic \o <<41>>

\* the provider gave one item where nine were asked for: the second item of the result
\* is "Bonus Item 1"
C15_Witness_OneItemOfNine ==
    /\ pc = "generated"
    /\ input.count = 9
    /\ input.response.kind = "array"
    /\ Len(input.response.items) = 1
    /\ Val(output).items[1] = input.response.items[1]
    /\ Val(output).items[2] = STR_BONUS \o <<49>>

(***************************************************************************)
(* The load effect on stored collections of both schemas                   *)
(***************************************************************************)
\* a stored cell: with or without a photos list (empty, one photo, two), with or without
\* the older schema's photoUrl "o"
StoredCells(id, text) ==
    {BingoCell(id, text, photoUrl, photos,
               IF photoUrl = Absent /\ photos \in {Absent, Some(<<>>)} THEN Absent ELSE Some(0)) :
        photoUrl \in {Absent, Some(<<111>>)},
        photos \in {Absent, Some(<<>>), Some(<<<<112>>>>), Some(<<<<112>>, <<113>>>>)}}

\* stored boards: the 3x3 board "L" with any stored cells in its first two places and
\* cells of the older schema without a photo in the others
StoredBoards ==
    LET g == NewGame(CreateGameParams(<<76>>, 3, Absent, Some(ManualItems(3))), 0)
    IN  {[g EXCEPT !.cells = [k \in 1..Len(@) |->
                IF k = 1 THEN c1 ELSE IF k = 2 THEN c2
                ELSE BingoCell(@[k].id, @[k].text, Absent, Absent, Absent)]] :
            c1 \in StoredCells(g.cells[1].id, g.cells[1].text),
            c2 \in StoredCells(g.cells[2].id, g.cells[2].text)}

\* stored collections: such a board alone, or behind a board made by this version
StoredCollections ==
    {<<b>> : b \in StoredBoards}
    \cup {<<NewGame(CreateGameParams(<<65>>, 3, Absent, Some(ManualItems(3))), 1), b>> :
             b \in StoredBoards}

\* the page is opened without a link on a stored collection
LoadInit ==
    /\ pc = "unmounted"
    /\ \E gs \in StoredCollections :
          /\ input = [stored |-> gs]
          /\ store = Some(JsonStringifyGames(gs))
    /\ url = Absent
    /\ games = <<>>
    /\ activeGameId = Absent
    /\ isCreating = FALSE
    /\ selectedCellId = Absent
    /\ showConfetti = FALSE
    /\ isProcessingImg = FALSE
    /\ pending = Absent
    /\ clipboard = Absent
    /\ now = 2
    /\ lastOp = Op("none", TRUE)
    /\ output = Absent

LoadNext ==
    \/ Mount
    \/ Rerender

SpecLoad == LoadInit /\ [][LoadNext]_vars

\* C16: once the stored collection is loaded, the boards are the stored ones in number
\* and order, each with its stored members and as many cells in the stored order; each
\* cell has its stored members, and its photos are the stored list when it had one, the
\* one-element list of its photoUrl when it had none but a photoUrl, and else empty.
C16_MigrationGivesPhotosLists ==
    pc \in {"mounted", "ready"} =>
        /\ Len(games) = Len(input.stored)
        /\ \A i \in 1..Len(input.stored) :
              LET old == input.stored[i]
                  new == games[i]
              IN  /\ [new EXCEPT !.cells = old.cells] = old
                  /\ Len(new.cells) = Len(old.cells)
                  /\ \A k \in 1..Len(old.cells) :
                        /\ [new.cells[k] EXCEPT !.photos = old.cells[k].photos] = old.cells[k]
                        /\ new.cells[k].photos # Absent
                        /\ old.cells[k].photos # Absent =>
                              new.cells[k].photos = old.cells[k].photos
                        /\ (old.cells[k].photos = Absent /\ old.cells[k].photoUrl # Absent) =>
                              new.cells[k].photos = Some(<<Val(old.cells[k].photoUrl)>>)
                        /\ (old.cells[k].photos = Absent /\ old.cells[k].photoUrl = Absent) =>
                              new.cells[k].photos = Some(<<>>)

\* a loaded board whose first cell was stored with a photoUrl and no photos list, whose
\* second was stored with both, and whose third was stored with neither
C16_Witness_LegacyCellLoaded ==
    /\ pc = "mounted"
    /\ Len(games) = 2
    /\ input.stored[2].cells[1].photos = Absent
    /\ games[2].cells[1].photos = Some(<<<<111>>>>)
    /\ input.stored[2].cells[2].photoUrl = Some(<<111>>)
    /\ games[2].cells[2].photos = Some(<<<<112>>, <<113>>>>)
    /\ games[2].cells[3].photos = Some(<<>>)

(***************************************************************************)
(* compressImage: the size of the canvas. width and height are JavaScript  *)
(* numbers (IEEE 754 doubles, 53 significant bits, round to nearest, ties  *)
(* to even); a significand is a sequence of bits, most significant first.  *)
(***************************************************************************)
MAX_WIDTH == 800
MAX_HEIGHT == 800
SignificandBits == 53

\* the number of doublings that bring a up to b or above (0 < a < b): the first 1 of the
\* binary expansion of a / b is its z-th bit after the point
RECURSIVE LeadingZeros(_, _, _)
LeadingZeros(a, b, z) == IF 2 * a >= b THEN z ELSE LeadingZeros(2 * a, b, z + 1)

\* a * 2 ^ n
RECURSIVE Doubled(_, _)
Doubled(a, n) == IF n = 0 THEN a ELSE Doubled(2 * a, n - 1)

\* long division: the next n bits of rem / den (rem < den), and the remainder left
RECURSIVE GenBits(_, _, _, _)
GenBits(rem, den, n, acc) ==
    IF n = 0 THEN [bits |-> acc, rem |-> rem]
    ELSE IF 2 * rem >= den THEN GenBits(2 * rem - den, den, n - 1, Append(acc, 1))
    ELSE GenBits(2 * rem, den, n - 1, Append(acc, 0))

\* bits + 1 (one bit longer when every bit is 1)
RECURSIVE Inc(_)
Inc(bits) ==
    IF bits = <<>> THEN <<1>>
    ELSE IF bits[Len(bits)] = 0 THEN SubSeq(bits, 1, Len(bits) - 1) \o <<1>>
    ELSE Inc(SubSeq(bits, 1, Len(bits) - 1)) \o <<0>>

\* rounding of a significand of 53 bits or more (first bit 1; sticky: a non-zero rest
\* below the bits) to 53 bits, to nearest, ties to even: the 53 bits, and the number of
\* low bits dropped
Round53(bits, sticky) ==
    IF Len(bits) <= SignificandBits THEN [m |-> bits, dropped |-> 0]
    ELSE LET kept == SubSeq(bits, 1, SignificandBits)
             guard == bits[SignificandBits + 1]
             rest == sticky \/ \E i \in (SignificandBits + 2)..Len(bits) : bits[i] = 1
             up == guard = 1 /\ (rest \/ kept[SignificandBits] = 1)
         IN  IF ~up THEN [m |-> kept, dropped |-> Len(bits) - SignificandBits]
             ELSE Bind(Inc(kept), LAMBDA m :
                     [m |-> SubSeq(m, 1, SignificandBits),
                      dropped |-> Len(bits) - SignificandBits + (Len(m) - SignificandBits)])

\* bits * x for a small x, from the last bit up, carry in hand
RECURSIVE MulSmall(_, _, _, _, _)
MulSmall(bits, x, i, carry, acc) ==
    IF i = 0
    THEN (IF carry = 0 THEN acc ELSE MulSmall(bits, x, 0, carry \div 2, <<carry % 2>> \o acc))
    ELSE MulSmall(bits, x, i - 1, (bits[i] * x + carry) \div 2,
                  <<(bits[i] * x + carry) % 2>> \o acc)

\* the number a short sequence of bits stands for
RECURSIVE ToInt(_, _)
ToInt(bits, acc) == IF bits = <<>> THEN acc ELSE ToInt(Tail(bits), 2 * acc + Head(bits))

\* the double a / b for 0 < a < b: significand m, and the value is m * 2 ^ (-scale)
DoubleQuotient(a, b) ==
    Bind(LeadingZeros(a, b, 1), LAMBDA z :
        Bind(GenBits(Doubled(a, z - 1), b, SignificandBits + 1, <<>>), LAMBDA g :
            Bind(Round53(g.bits, g.rem # 0), LAMBDA r :
                [m |-> r.m, scale |-> z + SignificandBits - r.dropped])))

\* the double x * q for a whole x >= 1 and a double q
DoubleTimes(x, q) ==
    Bind(MulSmall(q.m, x, Len(q.m), 0, <<>>), LAMBDA p :
        Bind(Round53(p, FALSE), LAMBDA r :
            [m |-> r.m, scale |-> q.scale - r.dropped]))

\* canvas.width = v, canvas.height = v: an unsigned long attribute, the fraction of a
\* double is cut off
Truncated(v) ==
    IF v.scale >= Len(v.m) THEN 0
    ELSE ToInt(SubSeq(v.m, 1, Len(v.m) - v.scale), 0)

\* side *= MAX / longer (evaluated as side * (MAX / longer)), then stored in the canvas
ScaledSide(side, max, longer) == Truncated(DoubleTimes(side, DoubleQuotient(max, longer)))

\* the resize logic of img.onload: canvas.width, canvas.height
CanvasSize(width, height) ==
    IF width > height
    THEN (IF width > MAX_WIDTH
          THEN [width |-> MAX_WIDTH, height |-> ScaledSide(height, MAX_WIDTH, width)]
          ELSE [width |-> width, height |-> height])
    ELSE (IF height > MAX_HEIGHT
          THEN [width |-> ScaledSide(width, MAX_HEIGHT, height), height |-> MAX_HEIGHT]
          ELSE [width |-> width, height |-> height])

\* the sides of the images picked, in pixels
ImageSides == {1, 2, 400, 537, 799, 800, 801, 895, 1078, 1600, 2000}

ResizeInit ==
    /\ pc = "resize"
    /\ \E width \in ImageSides, height \in ImageSides : input = [width |-> width, height |-> height]
    /\ url = Absent
    /\ store = Absent
    /\ games = <<>>
    /\ activeGameId = Absent
    /\ isCreating = FALSE
    /\ selectedCellId = Absent
    /\ showConfetti = FALSE
    /\ isProcessingImg = FALSE
    /\ pending = Absent
    /\ clipboard = Absent
    /\ now = 0
    /\ lastOp = Op("none", TRUE)
    /\ output = Absent

\* img.onload of compressImage
Resize ==
    /\ pc = "resize"
    /\ output' = Some(CanvasSize(input.width, input.height))
    /\ pc' = "resized"
    /\ UNCHANGED <<url, store, games, activeGameId, isCreating, selectedCellId, showConfetti,
                   isProcessingImg, pending, clipboard, now, lastOp, input>>

ResizeNext == Resize

SpecResize == ResizeInit /\ [][ResizeNext]_vars

\* the longer and the shorter of two sides
Longer(a, b) == IF a >= b THEN a ELSE b
Shorter(a, b) == IF a >= b THEN b ELSE a

\* C17: the canvas is at most 800 on either axis and on neither axis larger than the
\* image; an image of at most 800 on both axes keeps its size; any other image has its
\* longer side at exactly 800, on the same axis, and its shorter side less than one
\* pixel away from the length that keeps the aspect ratio (shorter * 800 / longer).
C17_CanvasKeepsAspect ==
    pc = "resized" =>
        LET w == input.width
            h == input.height
            cw == Val(output).width
            ch == Val(output).height
            off == ch * w * (IF w >= h THEN 1 ELSE 0) + cw * h * (IF w >= h THEN 0 ELSE 1)
                   - MAX_WIDTH * Shorter(w, h)
        IN  /\ cw <= MAX_WIDTH /\ ch <= MAX_HEIGHT
            /\ cw <= w /\ ch <= h
            /\ (w <= MAX_WIDTH /\ h <= MAX_HEIGHT) => (cw = w /\ ch = h)
            /\ (w > MAX_WIDTH \/ h > MAX_HEIGHT) =>
                  /\ Longer(cw, ch) = MAX_WIDTH
                  /\ (w > h => cw = MAX_WIDTH) /\ (h > w => ch = MAX_HEIGHT)
                  /\ off < Longer(w, h) /\ 0 - off < Longer(w, h)

(***************************************************************************)
(* Uploads that fail, uploads that overlap a removal                       *)
(***************************************************************************)
\* C18: when compressImage rejects, the step attaches nothing: the collection and the
\* store are as they were, cell by cell; and no upload is left in flight and the
\* processing flag is down, so that the file input takes the next upload.
C18_FailedUploadAttachesNothing ==
    [][UploadReject =>
          /\ games' = games
          /\ store' = store
          /\ \A i \in 1..Len(games) : \A k \in 1..Len(games[i].cells) :
                /\ PhotosOf(games'[i].cells[k]) = PhotosOf(games[i].cells[k])
                /\ games'[i].cells[k].completedAt = games[i].cells[k].completedAt
          /\ pending' = Absent
          /\ isProcessingImg' = FALSE]_vars

\* an upload to a cell that holds a photo has just failed in the open board: the cell
\* is open with its one photo, and the flag is down
C18_Witness_FailedOnCompletedCell ==
    /\ lastOp.op = "uploadFailed"
    /\ BoardView
    /\ IsSome(ActiveCell)
    /\ Len(PhotosOf(Val(ActiveCell))) = 1
    /\ IsSome(Val(ActiveCell).completedAt)
    /\ ~isProcessingImg
    /\ pending = Absent

\* C19: an attach that completes adds its photo to the board as it is then: the cells
\* after the step are the cells before it with the photo appended to the cell picked
\* when the upload started, so that a removal made while the upload was pending stays.
C19_AttachKeepsEarlierRemoval ==
    [][\A photoUrl \in Photos :
          (UploadResolve(photoUrl) /\ Exists(games, Val(pending).game.id)) =>
              Val(BoardById(games', Val(pending).game.id)).cells =
                  AddPhotoCells(Val(BoardById(games, Val(pending).game.id)).cells,
                                Val(pending).cellId, photoUrl, now')]_vars

(***************************************************************************)
(* Durability of the store                                                 *)
(***************************************************************************)
\* C20: a board that is in the store before a step is in the store after it, unless the
\* step is the deletion of that board: no step, the startup writes included, takes a
\* stored board out of the store.
C20_StoredBoardStays ==
    [][\A i \in 1..Len(StoredGames(store)) :
          \/ Exists(StoredGames(store'), StoredGames(store)[i].id)
          \/ Delete /\ activeGameId = Some(StoredGames(store)[i].id)]_vars

====
